---- MODULE Spec2Model ----
(***************************************************************************)
(* Model of the user-service account ledger: the userService operations    *)
(* of internal/service/service.go running concurrently against the         *)
(* postgresUserRepository statements of internal/repository (one SQL       *)
(* statement = one atomic step on the users table).                        *)
(*                                                                         *)
(* Time is counted in hours.  Strings whose length or characters matter    *)
(* (emails, names) are sequences of one-character strings.                 *)
(*                                                                         *)
(* Spec       concurrent calls with well-formed requests                   *)
(* SeqSpec    calls served one at a time, over a longer stretch of time    *)
(* InputSpec  calls served one at a time, with everything a caller sends   *)
(* FairSpec   concurrent calls on one account, every store call completes  *)
(*            or is cut off                                                *)
(* AccessSpec HasAccessByUser applied to any user                          *)
(* AuditSpec  calls served one at a time, each notifying the audit sink     *)
(* RenewSpec  concurrent renewals and deletion of a running subscription   *)
(* PublishSpec concurrent AuditPublisher.Publish calls and the producer's   *)
(*            delivery reports                                             *)
(* HandlerSpec requests served one at a time by the HTTP handlers of        *)
(*            CreateUser, ActivateSubscription and RenewSubscription       *)
(***************************************************************************)
EXTENDS Integers, Sequences, FiniteSets, TLC

(* ------------------------------ bounds -------------------------------- *)
NumProcs == 2
MaxUsers == 2
MaxOps == 3
MaxTime == 1
MaxFaults == 1

(* ------------------------- program constants -------------------------- *)
MaxEmailLength == 255
MaxNameLength == 100
MaxCoinsAmount == 1000000000
MaxSubscriptionDurationHours == 87600
MaxListLimit == 100
MaxListOffset == 10000000
DefaultListLimit == 10
InitialCoinsBalance == 200
SubscriptionBonus == 5000
TrialHours == 3 * 24

StatusActive == "active"
StatusInactive == "inactive"
StatusSuspended == "suspended"
StatusDeleted == "deleted"
ValidStatuses == {StatusActive, StatusInactive, StatusSuspended, StatusDeleted}

(* ------------------------------ errors -------------------------------- *)
(* An error is modelled by the sentinel errors.Is finds in its chain;     *)
(* fmt.Errorf("...: %w", err) keeps that sentinel.  ErrDeadline is the    *)
(* context.WithTimeout expiry of a store call, ErrUniqueViolation the pq  *)
(* error of the users.email UNIQUE constraint; neither is a domain error. *)
NoErr == "nil"
ErrUserNotFound == "ErrUserNotFound"
ErrInsufficientCoinsBalance == "ErrInsufficientCoinsBalance"
ErrSubscriptionAlreadyActive == "ErrSubscriptionAlreadyActive"
ErrNoActiveSubscription == "ErrNoActiveSubscription"
ErrInvalidCoinsAmount == "ErrInvalidCoinsAmount"
ErrInvalidEmailFormat == "ErrInvalidEmailFormat"
ErrEmailAlreadyExists == "ErrEmailAlreadyExists"
ErrInvalidStatus == "ErrInvalidStatus"
ErrInvalidSubscriptionDuration == "ErrInvalidSubscriptionDuration"
ErrEmailRequired == "ErrEmailRequired"
ErrNameRequired == "ErrNameRequired"
ErrUserIDRequired == "ErrUserIDRequired"
ErrEmailTooLong == "ErrEmailTooLong"
ErrNameTooLong == "ErrNameTooLong"
ErrInvalidUUID == "ErrInvalidUUID"
ErrCoinsAmountTooLarge == "ErrCoinsAmountTooLarge"
ErrSubscriptionDurationTooLong == "ErrSubscriptionDurationTooLong"
ErrListLimitTooLarge == "ErrListLimitTooLarge"
ErrListOffsetTooLarge == "ErrListOffsetTooLarge"
ErrDeadline == "context.DeadlineExceeded"
ErrUniqueViolation == "pq.unique_violation"
ErrDeliveryFailed == "delivery failed"
ErrDeliveryTimeout == "delivery timeout"
ErrProduceFailed == "failed to produce message"
ErrCanceled == "context canceled"

(* ------------------------------ values -------------------------------- *)
Procs == 1 .. NumProcs
Ids == 1 .. MaxUsers
EmptyID == 0
BadID == -1
NilTime == -1
NilStatus == "<nil>"
NilString == << "<nil>" >>
EmptyString == << >>

Letter == {"a", "b", "c", "i", "o", "n", "m"}
Digit == {"0", "1"}
LocalChars == Letter \cup Digit \cup {".", "_", "%", "+", "-"}
DomainChars == Letter \cup Digit \cup {".", "-"}

Repeat(c, n) == [i \in 1 .. n |-> c]

EmailA == << "a", "@", "b", ".", "i", "o" >>
EmailB == << "c", "@", "b", ".", "i", "o" >>
EmailNoAt == << "a", ".", "i", "o" >>
EmailLong == Repeat("a", MaxEmailLength - 4) \o << "@", "b", ".", "i", "o" >>
NameN == << "n" >>
NameM == << "m" >>
NameLong == Repeat("n", MaxNameLength + 1)

(* emailRegex ^[a-zA-Z0-9._%+-]+@[a-zA-Z0-9.-]+\.[a-zA-Z]{2,}$ *)
emailRegexMatch(s) ==
    \E i \in 1 .. Len(s) : \E j \in 1 .. Len(s) :
        /\ s[i] = "@"
        /\ s[j] = "."
        /\ i > 1
        /\ j > i + 1
        /\ Len(s) - j >= 2
        /\ \A k \in 1 .. (i - 1) : s[k] \in LocalChars
        /\ \A k \in (i + 1) .. (j - 1) : s[k] \in DomainChars
        /\ \A k \in (j + 1) .. Len(s) : s[k] \in Letter

(* uuid.Parse(id) succeeds *)
uuidParse(id) == id \in Ids

(* the validation that lets every status through *)
ValidateStatus_Any(status) == NoErr

ValidateStatus(status) == IF status \in ValidStatuses THEN NoErr ELSE ErrInvalidStatus

NoUser ==
    [ID |-> EmptyID, Email |-> EmptyString, Name |-> EmptyString,
     CoinsBalance |-> 0, TotalCoinsPurchased |-> 0,
     IsTrial |-> FALSE, TrialEndsAt |-> NilTime,
     HasSubscription |-> FALSE, SubscriptionEndsAt |-> NilTime,
     Status |-> "", CreatedAt |-> NilTime, UpdatedAt |-> NilTime]

NoFields == [Email |-> NilString, Name |-> NilString, Status |-> NilStatus]

NoReq ==
    [op |-> "none", id |-> EmptyID, Email |-> EmptyString, Name |-> EmptyString,
     Status |-> NilStatus, coins |-> 0, duration |-> 0, limit |-> 0, offset |-> 0,
     DurationHours |-> 0]

(* no channel: a nil chan kafka.Event *)
NilChan == 0

NoLoc == [user |-> NoUser, fields |-> NoFields, endsAt |-> NilTime,
          deliveryChan |-> NilChan]

(* audit: what the audit sink answered to the event of the call, if anything *)
NotSent == "none"

(* no response written yet *)
NoReply == [code |-> 0, msg |-> ""]

NoRes == [err |-> NoErr, user |-> NoUser, access |-> FALSE, list |-> << >>,
          audit |-> NotSent, reply |-> NoReply]

NoHist == [ver |-> 0, activated |-> 0]

NoObs == [found |-> FALSE, row |-> NoUser, hist |-> NoHist, timeouts |-> 0]

(* a producer that was handed no message yet *)
NoKafka == [chans |-> << >>, msgs |-> {}, events |-> << >>, panicked |-> FALSE]

(* ------------------------------ inputs -------------------------------- *)
(* what the callers of the concurrent specification send: well-formed     *)
(* requests, on ids that may or may not name a row                        *)
IdInputs == Ids
CreateInputs ==
    {[Email |-> EmailA, Name |-> NameN], [Email |-> EmailB, Name |-> NameN]}
UpdateInputs ==
    {[Email |-> EmailA, Name |-> EmptyString, Status |-> NilStatus],
     [Email |-> EmailB, Name |-> EmptyString, Status |-> NilStatus],
     [Email |-> EmptyString, Name |-> NameM, Status |-> StatusSuspended]}
CoinInputs == {1, 199}
DurationInputs == {1, 2}

(* ------------------------------ state --------------------------------- *)
VARIABLES
    users,     \* the users table: a function from the ids of the rows to rows
    nextId,    \* the ids uuid.New() has handed out so far are 1 .. nextId-1
    now,       \* the clock read by time.Now() and NOW()
    pc,        \* per request goroutine: the store call it is about to make
    req,       \* per request goroutine: the arguments of its current/last call
    loc,       \* per request goroutine: the locals of the call
    res,       \* per request goroutine: what its last call returned
    ops,       \* number of calls started
    faults,    \* number of store calls cut off by their timeout
    obs,       \* history, per call: the row and its history when the call began,
               \* and how many of the call's own store calls timed out
    hist,      \* history, per id: successful writes to the row, and how many of
               \* them were activations
    kafka      \* the audit producer: the delivery channels Publish made, the
               \* messages awaiting their delivery report, the reports on
               \* Producer.Events(), and whether a send hit a closed channel

vars == << users, nextId, now, pc, req, loc, res, ops, faults, obs, hist, kafka >>

Init ==
    /\ users = << >>
    /\ nextId = 1
    /\ now = 0
    /\ pc = [p \in Procs |-> "idle"]
    /\ req = [p \in Procs |-> NoReq]
    /\ loc = [p \in Procs |-> NoLoc]
    /\ res = [p \in Procs |-> NoRes]
    /\ ops = 0
    /\ faults = 0
    /\ obs = [p \in Procs |-> NoObs]
    /\ hist = [id \in Ids |-> NoHist]
    /\ kafka = NoKafka


(* --------------------- the users table (schema) ----------------------- *)
(* 000001_create_users_table: CHECK (coins_balance >= 0),                 *)
(* CHECK (total_coins_purchased >= 0).  Every statement below keeps the   *)
(* CHECKs by its own WHERE and SET clauses, so they never reject one of   *)
(* them; they are proved as invariants instead of being assumed.          *)
UsersCheck(row) == row.CoinsBalance >= 0 /\ row.TotalCoinsPurchased >= 0

(* email TEXT NOT NULL UNIQUE: may row id take this email? *)
EmailUnique(tbl, id, email) ==
    \A other \in DOMAIN tbl : other # id => tbl[other].Email # email

WithRow(tbl, id, row) ==
    [i \in DOMAIN tbl \cup {id} |-> IF i = id THEN row ELSE tbl[i]]

WithoutRow(tbl, id) == [i \in DOMAIN tbl \ {id} |-> tbl[i]]

(* ------------------- postgresUserRepository (SQL) --------------------- *)
(* Each operator is one SQL statement executed at time t; it yields the   *)
(* error of ExecContext, RowsAffected and the table afterwards.           *)
StmtResult(err, rows, tbl) == [err |-> err, rows |-> rows, users |-> tbl]

(* the insert into a table that lost its UNIQUE (email) constraint *)
Create_NoUniqueEmail(tbl, user, t) ==
    IF user.ID \in DOMAIN tbl
    THEN StmtResult(ErrUniqueViolation, 0, tbl)
    ELSE StmtResult(NoErr, 1,
             WithRow(tbl, user.ID, [user EXCEPT !.CreatedAt = t, !.UpdatedAt = t]))

(* INSERT INTO users (...) VALUES (...); created_at, updated_at DEFAULT NOW() *)
Create(tbl, user, t) ==
    IF user.ID \in DOMAIN tbl \/ ~EmailUnique(tbl, user.ID, user.Email)
    THEN StmtResult(ErrUniqueViolation, 0, tbl)
    ELSE StmtResult(NoErr, 1,
             WithRow(tbl, user.ID, [user EXCEPT !.CreatedAt = t, !.UpdatedAt = t]))

(* SELECT ... FROM users WHERE id = $1 *)
GetByID(tbl, id) ==
    IF id \in DOMAIN tbl
    THEN [err |-> NoErr, user |-> tbl[id]]
    ELSE [err |-> ErrUserNotFound, user |-> NoUser]

(* SELECT ... FROM users WHERE email = $1 *)
GetByEmail(tbl, email) ==
    IF \E id \in DOMAIN tbl : tbl[id].Email = email
    THEN [err |-> NoErr, user |-> tbl[CHOOSE id \in DOMAIN tbl : tbl[id].Email = email]]
    ELSE [err |-> ErrUserNotFound, user |-> NoUser]

(* the update that also ends the trial (SET ..., is_trial = false) *)
Update_EndsTrial(tbl, userID, fields, t) ==
    IF fields.Email = NilString /\ fields.Name = NilString /\ fields.Status = NilStatus
    THEN StmtResult(NoErr, 0, tbl)
    ELSE IF userID \notin DOMAIN tbl
    THEN StmtResult(ErrUserNotFound, 0, tbl)
    ELSE IF fields.Email # NilString /\ ~EmailUnique(tbl, userID, fields.Email)
    THEN StmtResult(ErrUniqueViolation, 0, tbl)
    ELSE StmtResult(NoErr, 1,
             [tbl EXCEPT ![userID] =
                 [@ EXCEPT !.Email = IF fields.Email # NilString THEN fields.Email ELSE @,
                           !.Name = IF fields.Name # NilString THEN fields.Name ELSE @,
                           !.Status = IF fields.Status # NilStatus THEN fields.Status ELSE @,
                           !.IsTrial = FALSE,
                           !.UpdatedAt = t]])

(* UPDATE users SET <supplied fields>, updated_at = NOW() WHERE id = $n *)
Update(tbl, userID, fields, t) ==
    IF fields.Email = NilString /\ fields.Name = NilString /\ fields.Status = NilStatus
    THEN StmtResult(NoErr, 0, tbl)
    ELSE IF userID \notin DOMAIN tbl
    THEN StmtResult(ErrUserNotFound, 0, tbl)
    ELSE IF fields.Email # NilString /\ ~EmailUnique(tbl, userID, fields.Email)
    THEN StmtResult(ErrUniqueViolation, 0, tbl)
    ELSE StmtResult(NoErr, 1,
             [tbl EXCEPT ![userID] =
                 [@ EXCEPT !.Email = IF fields.Email # NilString THEN fields.Email ELSE @,
                           !.Name = IF fields.Name # NilString THEN fields.Name ELSE @,
                           !.Status = IF fields.Status # NilStatus THEN fields.Status ELSE @,
                           !.UpdatedAt = t]])

(* the credit that does not look at RowsAffected *)
AddCoinsAtomic_NoRowCheck(tbl, userID, coins, t) ==
    IF coins <= 0
    THEN StmtResult(ErrInvalidCoinsAmount, 0, tbl)
    ELSE IF userID \notin DOMAIN tbl
    THEN StmtResult(NoErr, 0, tbl)
    ELSE StmtResult(NoErr, 1,
             [tbl EXCEPT ![userID] =
                 [@ EXCEPT !.CoinsBalance = @ + coins,
                           !.TotalCoinsPurchased = @ + coins,
                           !.UpdatedAt = t]])

(* the credit that forgets total_coins_purchased *)
AddCoinsAtomic_BalanceOnly(tbl, userID, coins, t) ==
    IF coins <= 0
    THEN StmtResult(ErrInvalidCoinsAmount, 0, tbl)
    ELSE IF userID \in DOMAIN tbl
    THEN StmtResult(NoErr, 1,
             [tbl EXCEPT ![userID] =
                 [@ EXCEPT !.CoinsBalance = @ + coins, !.UpdatedAt = t]])
    ELSE StmtResult(NoErr, 0, tbl)

(* the credit that sets the balance instead of raising it (coins_balance = $1) *)
AddCoinsAtomic_SetsBalance(tbl, userID, coins, t) ==
    IF coins <= 0
    THEN StmtResult(ErrInvalidCoinsAmount, 0, tbl)
    ELSE IF userID \notin DOMAIN tbl
    THEN StmtResult(ErrUserNotFound, 0, tbl)
    ELSE StmtResult(NoErr, 1,
             [tbl EXCEPT ![userID] =
                 [@ EXCEPT !.CoinsBalance = coins,
                           !.TotalCoinsPurchased = @ + coins,
                           !.UpdatedAt = t]])

(* UPDATE users SET coins_balance = coins_balance + $1,
   total_coins_purchased = total_coins_purchased + $1, updated_at = NOW()
   WHERE id = $2 *)
AddCoinsAtomic(tbl, userID, coins, t) ==
    IF coins <= 0
    THEN StmtResult(ErrInvalidCoinsAmount, 0, tbl)
    ELSE IF userID \notin DOMAIN tbl
    THEN StmtResult(ErrUserNotFound, 0, tbl)
    ELSE StmtResult(NoErr, 1,
             [tbl EXCEPT ![userID] =
                 [@ EXCEPT !.CoinsBalance = @ + coins,
                           !.TotalCoinsPurchased = @ + coins,
                           !.UpdatedAt = t]])

(* the debit with a strict guard (AND coins_balance > $1) *)
DeductCoinsAtomic_StrictGuard(tbl, userID, coins, t) ==
    IF coins <= 0
    THEN StmtResult(ErrInvalidCoinsAmount, 0, tbl)
    ELSE IF userID \in DOMAIN tbl /\ tbl[userID].CoinsBalance > coins
    THEN StmtResult(NoErr, 1,
             [tbl EXCEPT ![userID] =
                 [@ EXCEPT !.CoinsBalance = @ - coins, !.UpdatedAt = t]])
    ELSE StmtResult(NoErr, 0, tbl)

(* the debit that mirrors the credit and also lowers total_coins_purchased *)
DeductCoinsAtomic_AlsoTotal(tbl, userID, coins, t) ==
    IF coins <= 0
    THEN StmtResult(ErrInvalidCoinsAmount, 0, tbl)
    ELSE IF userID \in DOMAIN tbl /\ tbl[userID].CoinsBalance >= coins
    THEN StmtResult(NoErr, 1,
             [tbl EXCEPT ![userID] =
                 [@ EXCEPT !.CoinsBalance = @ - coins,
                           !.TotalCoinsPurchased = @ - coins,
                           !.UpdatedAt = t]])
    ELSE StmtResult(NoErr, 0, tbl)

(* the debit without its balance guard (WHERE id = $2 only) *)
DeductCoinsAtomic_Unguarded(tbl, userID, coins, t) ==
    IF coins <= 0
    THEN StmtResult(ErrInvalidCoinsAmount, 0, tbl)
    ELSE IF userID \in DOMAIN tbl
    THEN StmtResult(NoErr, 1,
             [tbl EXCEPT ![userID] =
                 [@ EXCEPT !.CoinsBalance = @ - coins, !.UpdatedAt = t]])
    ELSE StmtResult(NoErr, 0, tbl)

(* the debit guarded by a positive balance instead of a sufficient one
   (AND coins_balance > 0) *)
DeductCoinsAtomic_PositiveGuard(tbl, userID, coins, t) ==
    IF coins <= 0
    THEN StmtResult(ErrInvalidCoinsAmount, 0, tbl)
    ELSE IF userID \in DOMAIN tbl /\ tbl[userID].CoinsBalance > 0
    THEN StmtResult(NoErr, 1,
             [tbl EXCEPT ![userID] =
                 [@ EXCEPT !.CoinsBalance = @ - coins, !.UpdatedAt = t]])
    ELSE StmtResult(NoErr, 0, tbl)

(* UPDATE users SET coins_balance = coins_balance - $1, updated_at = NOW()
   WHERE id = $2 AND coins_balance >= $1 *)
DeductCoinsAtomic(tbl, userID, coins, t) ==
    IF coins <= 0
    THEN StmtResult(ErrInvalidCoinsAmount, 0, tbl)
    ELSE IF userID \in DOMAIN tbl /\ tbl[userID].CoinsBalance >= coins
    THEN StmtResult(NoErr, 1,
             [tbl EXCEPT ![userID] =
                 [@ EXCEPT !.CoinsBalance = @ - coins, !.UpdatedAt = t]])
    ELSE StmtResult(NoErr, 0, tbl)

(* the activation without its guard (WHERE id = $4 only) *)
ActivateSubscriptionAtomic_Unguarded(tbl, userID, isTrial, trialEndsAt, subscriptionEndsAt, t) ==
    IF userID \in DOMAIN tbl
    THEN StmtResult(NoErr, 1,
             [tbl EXCEPT ![userID] =
                 [@ EXCEPT !.IsTrial = isTrial,
                           !.TrialEndsAt = trialEndsAt,
                           !.HasSubscription = TRUE,
                           !.SubscriptionEndsAt = subscriptionEndsAt,
                           !.UpdatedAt = t]])
    ELSE StmtResult(NoErr, 0, tbl)

(* the activation as a toggle (has_subscription = NOT has_subscription,
   WHERE id = $4): a second activation switches the subscription off *)
ActivateSubscriptionAtomic_Toggle(tbl, userID, isTrial, trialEndsAt, subscriptionEndsAt, t) ==
    IF userID \in DOMAIN tbl
    THEN StmtResult(NoErr, 1,
             [tbl EXCEPT ![userID] =
                 [@ EXCEPT !.IsTrial = isTrial,
                           !.TrialEndsAt = trialEndsAt,
                           !.HasSubscription = ~@,
                           !.SubscriptionEndsAt = subscriptionEndsAt,
                           !.UpdatedAt = t]])
    ELSE StmtResult(NoErr, 0, tbl)

(* the activation that closes the trial for good (trial_ends_at = NULL) *)
ActivateSubscriptionAtomic_ClearsTrial(tbl, userID, isTrial, trialEndsAt, subscriptionEndsAt, t) ==
    IF userID \in DOMAIN tbl /\ tbl[userID].HasSubscription = FALSE
    THEN StmtResult(NoErr, 1,
             [tbl EXCEPT ![userID] =
                 [@ EXCEPT !.IsTrial = isTrial,
                           !.TrialEndsAt = NilTime,
                           !.HasSubscription = TRUE,
                           !.SubscriptionEndsAt = subscriptionEndsAt,
                           !.UpdatedAt = t]])
    ELSE StmtResult(NoErr, 0, tbl)

(* UPDATE users SET is_trial = $1, trial_ends_at = $2, has_subscription = true,
   subscription_ends_at = $3, updated_at = NOW()
   WHERE id = $4 AND has_subscription = false *)
ActivateSubscriptionAtomic(tbl, userID, isTrial, trialEndsAt, subscriptionEndsAt, t) ==
    IF userID \in DOMAIN tbl /\ tbl[userID].HasSubscription = FALSE
    THEN StmtResult(NoErr, 1,
             [tbl EXCEPT ![userID] =
                 [@ EXCEPT !.IsTrial = isTrial,
                           !.TrialEndsAt = trialEndsAt,
                           !.HasSubscription = TRUE,
                           !.SubscriptionEndsAt = subscriptionEndsAt,
                           !.UpdatedAt = t]])
    ELSE StmtResult(NoErr, 0, tbl)

(* the renewal without its guard (WHERE id = $2 only) *)
RenewSubscriptionAtomic_Unguarded(tbl, userID, subscriptionEndsAt, t) ==
    IF userID \in DOMAIN tbl
    THEN StmtResult(NoErr, 1,
             [tbl EXCEPT ![userID] =
                 [@ EXCEPT !.SubscriptionEndsAt = subscriptionEndsAt, !.UpdatedAt = t]])
    ELSE StmtResult(NoErr, 0, tbl)

(* UPDATE users SET subscription_ends_at = $1, updated_at = NOW()
   WHERE id = $2 AND has_subscription = true *)
RenewSubscriptionAtomic(tbl, userID, subscriptionEndsAt, t) ==
    IF userID \in DOMAIN tbl /\ tbl[userID].HasSubscription = TRUE
    THEN StmtResult(NoErr, 1,
             [tbl EXCEPT ![userID] =
                 [@ EXCEPT !.SubscriptionEndsAt = subscriptionEndsAt, !.UpdatedAt = t]])
    ELSE StmtResult(NoErr, 0, tbl)

(* the orders ORDER BY created_at DESC may return the rows in: rows created
   at the same time come in any order *)
RowOrders(tbl) ==
    {s \in [1 .. Cardinality(DOMAIN tbl) -> DOMAIN tbl] :
        /\ \A i, j \in DOMAIN s : i # j => s[i] # s[j]
        /\ \A i, j \in DOMAIN s : i < j => tbl[s[i]].CreatedAt >= tbl[s[j]].CreatedAt}

(* SELECT ... FROM users ORDER BY created_at DESC LIMIT $1 OFFSET $2:
   the results the statement may yield *)
List(tbl, limit, offset) ==
    LET n == Cardinality(DOMAIN tbl)
        rest == IF n > offset THEN n - offset ELSE 0
        len == IF limit < rest THEN limit ELSE rest
    IN {[k \in 1 .. len |-> tbl[s[offset + k]]] : s \in RowOrders(tbl)}

(* the soft delete: the row stays, marked deleted
   (UPDATE users SET status = 'deleted' WHERE id = $1) *)
Delete_Soft(tbl, id) ==
    IF id \in DOMAIN tbl
    THEN StmtResult(NoErr, 1, [tbl EXCEPT ![id].Status = StatusDeleted])
    ELSE StmtResult(ErrUserNotFound, 0, tbl)

(* DELETE FROM users WHERE id = $1 *)
Delete(tbl, id) ==
    IF id \in DOMAIN tbl
    THEN StmtResult(NoErr, 1, WithoutRow(tbl, id))
    ELSE StmtResult(ErrUserNotFound, 0, tbl)


(* ------------------------- request goroutines ------------------------- *)
(* A store call either completes or is cut off by its 5 s                 *)
(* context.WithTimeout; a call that is cut off changes nothing.           *)
TimeoutChoices == IF faults < MaxFaults THEN BOOLEAN ELSE {FALSE}

Exec(timeout, result) == IF timeout THEN StmtResult(ErrDeadline, 0, users) ELSE result

Query(timeout, result) == IF timeout THEN [err |-> ErrDeadline, user |-> NoUser] ELSE result

CountFault(p, timeout) ==
    /\ faults' = IF timeout THEN faults + 1 ELSE faults
    /\ obs' = [obs EXCEPT ![p].timeouts = IF timeout THEN @ + 1 ELSE @]

(* history: a statement that changed the row of id *)
Wrote(id, r, activation) ==
    hist' = IF r.rows = 1
            THEN [hist EXCEPT ![id].ver = @ + 1,
                              ![id].activated = IF activation THEN @ + 1 ELSE @]
            ELSE hist

(* history: what the table holds for id when a call on it begins *)
Observe(id) ==
    IF id \in DOMAIN users
    THEN [found |-> TRUE, row |-> users[id], hist |-> hist[id], timeouts |-> 0]
    ELSE IF id \in Ids
    THEN [NoObs EXCEPT !.hist = hist[id]]
    ELSE NoObs

(* the goroutines are interchangeable: a new call takes the lowest free one *)
Begin(p, r) ==
    /\ pc[p] = "idle"
    /\ \A q \in Procs : q < p => pc[q] # "idle"
    /\ ops < MaxOps
    /\ ops' = ops + 1
    /\ req' = [req EXCEPT ![p] = r]
    /\ obs' = [obs EXCEPT ![p] = Observe(r.id)]

Goto(p, label, l) ==
    /\ pc' = [pc EXCEPT ![p] = label]
    /\ loc' = [loc EXCEPT ![p] = l]
    /\ res' = [res EXCEPT ![p] = NoRes]

Return(p, err, user) ==
    /\ pc' = [pc EXCEPT ![p] = "idle"]
    /\ loc' = [loc EXCEPT ![p] = NoLoc]
    /\ res' = [res EXCEPT ![p] = [NoRes EXCEPT !.err = err, !.user = user]]

(* a call refused by its validation, before any store call *)
Reject(p, err) ==
    /\ pc' = [pc EXCEPT ![p] = "idle"]
    /\ loc' = [loc EXCEPT ![p] = NoLoc]
    /\ res' = [res EXCEPT ![p] = [NoRes EXCEPT !.err = err]]

(* the checks every operation on an id starts with *)
ValidateID(id) ==
    IF id = EmptyID THEN ErrUserIDRequired
    ELSE IF ~uuidParse(id) THEN ErrInvalidUUID
    ELSE NoErr

(* the amount check that refuses the maximum itself (coins >= MaxCoinsAmount) *)
ValidateCoins_StrictMax(coins) ==
    IF coins <= 0 THEN ErrInvalidCoinsAmount
    ELSE IF coins >= MaxCoinsAmount THEN ErrCoinsAmountTooLarge
    ELSE NoErr

ValidateCoins(coins) ==
    IF coins <= 0 THEN ErrInvalidCoinsAmount
    ELSE IF coins > MaxCoinsAmount THEN ErrCoinsAmountTooLarge
    ELSE NoErr

ValidateDuration(duration) ==
    IF duration <= 0 THEN ErrInvalidSubscriptionDuration
    ELSE IF duration > MaxSubscriptionDurationHours THEN ErrSubscriptionDurationTooLong
    ELSE NoErr

FirstErr(e1, e2) == IF e1 # NoErr THEN e1 ELSE e2

(* ------------------------------ CreateUser ---------------------------- *)
ValidateCreate(r) ==
    IF r.Email = EmptyString THEN ErrEmailRequired
    ELSE IF Len(r.Email) > MaxEmailLength THEN ErrEmailTooLong
    ELSE IF r.Name = EmptyString THEN ErrNameRequired
    ELSE IF Len(r.Name) > MaxNameLength THEN ErrNameTooLong
    ELSE IF ~emailRegexMatch(r.Email) THEN ErrInvalidEmailFormat
    ELSE NoErr

(* the new account without its welcome coins *)
NewUser_NoCoins(id, r, t) ==
    [ID |-> id, Email |-> r.Email, Name |-> r.Name,
     CoinsBalance |-> 0, TotalCoinsPurchased |-> 0,
     IsTrial |-> TRUE, TrialEndsAt |-> t + TrialHours,
     HasSubscription |-> FALSE, SubscriptionEndsAt |-> NilTime,
     Status |-> StatusActive, CreatedAt |-> NilTime, UpdatedAt |-> NilTime]

NewUser(id, r, t) ==
    [ID |-> id, Email |-> r.Email, Name |-> r.Name,
     CoinsBalance |-> InitialCoinsBalance, TotalCoinsPurchased |-> 0,
     IsTrial |-> TRUE, TrialEndsAt |-> t + TrialHours,
     HasSubscription |-> FALSE, SubscriptionEndsAt |-> NilTime,
     Status |-> StatusActive, CreatedAt |-> NilTime, UpdatedAt |-> NilTime]

PendingIds == Cardinality({q \in Procs : pc[q] = "CreateUser_GetByEmail"})

CreateUserCall(p, inputs) ==
    /\ nextId + PendingIds <= MaxUsers
    /\ \E in \in inputs :
         LET r == [NoReq EXCEPT !.op = "CreateUser", !.Email = in.Email, !.Name = in.Name]
             err == ValidateCreate(r)
         IN /\ Begin(p, r)
            /\ IF err # NoErr
               THEN Reject(p, err)
               ELSE Goto(p, "CreateUser_GetByEmail", NoLoc)
    /\ UNCHANGED << users, nextId, now, faults, hist, kafka >>

BeginCreateUser(p) == CreateUserCall(p, CreateInputs)

CreateUser_GetByEmail(p) ==
    /\ pc[p] = "CreateUser_GetByEmail"
    /\ \E timeout \in TimeoutChoices :
         LET r == Query(timeout, GetByEmail(users, req[p].Email))
         IN /\ CountFault(p, timeout)
            /\ IF r.err = NoErr
               THEN /\ Return(p, ErrEmailAlreadyExists, NoUser)
                    /\ nextId' = nextId
               ELSE /\ Goto(p, "CreateUser_Create",
                            [NoLoc EXCEPT !.user = NewUser(nextId, req[p], now)])
                    /\ nextId' = nextId + 1
    /\ UNCHANGED << users, now, req, ops, hist, kafka >>

CreateUser_Create(p) ==
    /\ pc[p] = "CreateUser_Create"
    /\ \E timeout \in TimeoutChoices :
         LET r == Exec(timeout, Create(users, loc[p].user, now))
         IN /\ CountFault(p, timeout)
            /\ users' = r.users
            /\ Wrote(loc[p].user.ID, r, FALSE)
            /\ IF r.err # NoErr
               THEN Return(p, r.err, NoUser)
               ELSE Return(p, NoErr, loc[p].user)
    /\ UNCHANGED << nextId, now, req, ops, kafka >>

(* ------------------------------ UpdateUser ---------------------------- *)
(* the update that writes every requested name and status, changed or not *)
UpdateRest_Requested(p, user0, fields0) ==
    LET r == req[p]
        user1 == IF r.Name # EmptyString THEN [user0 EXCEPT !.Name = r.Name] ELSE user0
        fields1 == IF r.Name # EmptyString THEN [fields0 EXCEPT !.Name = r.Name] ELSE fields0
        user2 == IF r.Status # NilStatus THEN [user1 EXCEPT !.Status = r.Status] ELSE user1
        fields2 == IF r.Status # NilStatus THEN [fields1 EXCEPT !.Status = r.Status] ELSE fields1
    IN IF fields2 = NoFields
       THEN Return(p, NoErr, user2)
       ELSE Goto(p, "UpdateUser_Update", [NoLoc EXCEPT !.user = user2, !.fields = fields2])

(* the name and status blocks and the final decision of UpdateUser *)
UpdateRest(p, user0, fields0) ==
    LET r == req[p]
        nameChanges == r.Name # EmptyString /\ r.Name # user0.Name
        user1 == IF nameChanges THEN [user0 EXCEPT !.Name = r.Name] ELSE user0
        fields1 == IF nameChanges THEN [fields0 EXCEPT !.Name = r.Name] ELSE fields0
        statusChanges == r.Status # NilStatus /\ r.Status # user1.Status
        user2 == IF statusChanges THEN [user1 EXCEPT !.Status = r.Status] ELSE user1
        fields2 == IF statusChanges THEN [fields1 EXCEPT !.Status = r.Status] ELSE fields1
    IN IF nameChanges /\ Len(r.Name) > MaxNameLength
       THEN Return(p, ErrNameTooLong, NoUser)
       ELSE IF statusChanges /\ ValidateStatus(r.Status) # NoErr
       THEN Return(p, ValidateStatus(r.Status), NoUser)
       ELSE IF fields2 = NoFields
       THEN Return(p, NoErr, user2)
       ELSE Goto(p, "UpdateUser_Update", [NoLoc EXCEPT !.user = user2, !.fields = fields2])

UpdateUserCall(p, ids, inputs) ==
    /\ \E id \in ids : \E in \in inputs :
         LET r == [NoReq EXCEPT !.op = "UpdateUser", !.id = id, !.Email = in.Email,
                                !.Name = in.Name, !.Status = in.Status]
             err == ValidateID(id)
         IN /\ Begin(p, r)
            /\ IF err # NoErr
               THEN Reject(p, err)
               ELSE Goto(p, "UpdateUser_GetByID", NoLoc)
    /\ UNCHANGED << users, nextId, now, faults, hist, kafka >>

BeginUpdateUser(p) == UpdateUserCall(p, IdInputs, UpdateInputs)

UpdateUser_GetByID(p) ==
    /\ pc[p] = "UpdateUser_GetByID"
    /\ \E timeout \in TimeoutChoices :
         LET r == Query(timeout, GetByID(users, req[p].id))
             emailChanges == req[p].Email # EmptyString /\ req[p].Email # r.user.Email
         IN /\ CountFault(p, timeout)
            /\ IF r.err # NoErr
               THEN Return(p, r.err, NoUser)
               ELSE IF ~emailChanges
               THEN UpdateRest(p, r.user, NoFields)
               ELSE IF Len(req[p].Email) > MaxEmailLength
               THEN Return(p, ErrEmailTooLong, NoUser)
               ELSE IF ~emailRegexMatch(req[p].Email)
               THEN Return(p, ErrInvalidEmailFormat, NoUser)
               ELSE Goto(p, "UpdateUser_GetByEmail", [NoLoc EXCEPT !.user = r.user])
    /\ UNCHANGED << users, nextId, now, req, ops, hist, kafka >>

UpdateUser_GetByEmail(p) ==
    /\ pc[p] = "UpdateUser_GetByEmail"
    /\ \E timeout \in TimeoutChoices :
         LET r == Query(timeout, GetByEmail(users, req[p].Email))
         IN /\ CountFault(p, timeout)
            /\ IF r.err = NoErr
               THEN Return(p, ErrEmailAlreadyExists, NoUser)
               ELSE UpdateRest(p, [loc[p].user EXCEPT !.Email = req[p].Email],
                               [NoFields EXCEPT !.Email = req[p].Email])
    /\ UNCHANGED << users, nextId, now, req, ops, hist, kafka >>

UpdateUser_Update(p) ==
    /\ pc[p] = "UpdateUser_Update"
    /\ \E timeout \in TimeoutChoices :
         LET r == Exec(timeout, Update(users, req[p].id, loc[p].fields, now))
         IN /\ CountFault(p, timeout)
            /\ users' = r.users
            /\ Wrote(req[p].id, r, FALSE)
            /\ IF r.err # NoErr
               THEN Return(p, r.err, NoUser)
               ELSE Return(p, NoErr, loc[p].user)
    /\ UNCHANGED << nextId, now, req, ops, kafka >>

(* ------------------------------ DeleteUser ---------------------------- *)
DeleteUserCall(p, ids) ==
    /\ \E id \in ids :
         LET r == [NoReq EXCEPT !.op = "DeleteUser", !.id = id]
             err == ValidateID(id)
         IN /\ Begin(p, r)
            /\ IF err # NoErr
               THEN Reject(p, err)
               ELSE Goto(p, "DeleteUser_Delete", NoLoc)
    /\ UNCHANGED << users, nextId, now, faults, hist, kafka >>

BeginDeleteUser(p) == DeleteUserCall(p, IdInputs)

DeleteUser_Delete(p) ==
    /\ pc[p] = "DeleteUser_Delete"
    /\ \E timeout \in TimeoutChoices :
         LET r == Exec(timeout, Delete(users, req[p].id))
         IN /\ CountFault(p, timeout)
            /\ users' = r.users
            /\ Wrote(req[p].id, r, FALSE)
            /\ Return(p, r.err, NoUser)
    /\ UNCHANGED << nextId, now, req, ops, kafka >>


(* ------------------------------ ListUsers ----------------------------- *)
(* the limit handed to the store as it came *)
ListLimit_Raw(limit) == limit

ListLimit(limit) == IF limit <= 0 THEN DefaultListLimit ELSE limit

ListOffset(offset) == IF offset < 0 THEN 0 ELSE offset

ValidateList(limit, offset) ==
    IF ListLimit(limit) > MaxListLimit THEN ErrListLimitTooLarge
    ELSE IF ListOffset(offset) > MaxListOffset THEN ErrListOffsetTooLarge
    ELSE NoErr

ListUsersCall(p, limits, offsets) ==
    /\ \E limit \in limits : \E offset \in offsets :
         LET r == [NoReq EXCEPT !.op = "ListUsers", !.limit = limit, !.offset = offset]
             err == ValidateList(limit, offset)
         IN /\ Begin(p, r)
            /\ IF err # NoErr
               THEN Reject(p, err)
               ELSE Goto(p, "ListUsers_List", NoLoc)
    /\ UNCHANGED << users, nextId, now, faults, hist, kafka >>

ListUsers_List(p) ==
    /\ pc[p] = "ListUsers_List"
    /\ \E timeout \in TimeoutChoices :
         /\ CountFault(p, timeout)
         /\ IF timeout
            THEN Return(p, ErrDeadline, NoUser)
            ELSE \E rows \in List(users, ListLimit(req[p].limit), ListOffset(req[p].offset)) :
                   /\ pc' = [pc EXCEPT ![p] = "idle"]
                   /\ loc' = [loc EXCEPT ![p] = NoLoc]
                   /\ res' = [res EXCEPT ![p] = [NoRes EXCEPT !.list = rows]]
    /\ UNCHANGED << users, nextId, now, req, ops, hist, kafka >>

(* ------------------------------- AddCoins ----------------------------- *)
AddCoinsCall(p, ids, coinss) ==
    /\ \E id \in ids : \E coins \in coinss :
         LET r == [NoReq EXCEPT !.op = "AddCoins", !.id = id, !.coins = coins]
             err == FirstErr(ValidateID(id), ValidateCoins(coins))
         IN /\ Begin(p, r)
            /\ IF err # NoErr
               THEN Reject(p, err)
               ELSE Goto(p, "AddCoins_AddCoinsAtomic", NoLoc)
    /\ UNCHANGED << users, nextId, now, faults, hist, kafka >>

BeginAddCoins(p) == AddCoinsCall(p, IdInputs, CoinInputs)

AddCoins_AddCoinsAtomic(p) ==
    /\ pc[p] = "AddCoins_AddCoinsAtomic"
    /\ \E timeout \in TimeoutChoices :
         LET r == Exec(timeout, AddCoinsAtomic(users, req[p].id, req[p].coins, now))
         IN /\ CountFault(p, timeout)
            /\ users' = r.users
            /\ Wrote(req[p].id, r, FALSE)
            /\ Return(p, r.err, NoUser)
    /\ UNCHANGED << nextId, now, req, ops, kafka >>

(* ------------------------------ DeductCoins --------------------------- *)
DeductCoinsCall(p, ids, coinss) ==
    /\ \E id \in ids : \E coins \in coinss :
         LET r == [NoReq EXCEPT !.op = "DeductCoins", !.id = id, !.coins = coins]
             err == FirstErr(ValidateID(id), ValidateCoins(coins))
         IN /\ Begin(p, r)
            /\ IF err # NoErr
               THEN Reject(p, err)
               ELSE Goto(p, "DeductCoins_DeductCoinsAtomic", NoLoc)
    /\ UNCHANGED << users, nextId, now, faults, hist, kafka >>

BeginDeductCoins(p) == DeductCoinsCall(p, IdInputs, CoinInputs)

DeductCoins_DeductCoinsAtomic(p) ==
    /\ pc[p] = "DeductCoins_DeductCoinsAtomic"
    /\ \E timeout \in TimeoutChoices :
         LET r == Exec(timeout, DeductCoinsAtomic(users, req[p].id, req[p].coins, now))
         IN /\ CountFault(p, timeout)
            /\ users' = r.users
            /\ Wrote(req[p].id, r, FALSE)
            /\ IF r.err # NoErr
               THEN Return(p, r.err, NoUser)
               ELSE IF r.rows = 0
               THEN Goto(p, "DeductCoinsAtomic_GetByID", NoLoc)
               ELSE Return(p, NoErr, NoUser)
    /\ UNCHANGED << nextId, now, req, ops, kafka >>

(* rowsAffected == 0: the follow-up existence read of the repository *)
ZeroRowsError(timeout, id, otherwise) ==
    IF Query(timeout, GetByID(users, id)).err # NoErr THEN ErrUserNotFound ELSE otherwise

(* the debit that tries again when no row was updated *)
DeductCoinsAtomic_GetByID_Retry(p) ==
    /\ pc[p] = "DeductCoinsAtomic_GetByID"
    /\ Goto(p, "DeductCoins_DeductCoinsAtomic", NoLoc)
    /\ UNCHANGED << users, nextId, now, req, ops, faults, obs, hist, kafka >>

DeductCoinsAtomic_GetByID(p) ==
    /\ pc[p] = "DeductCoinsAtomic_GetByID"
    /\ \E timeout \in TimeoutChoices :
         /\ CountFault(p, timeout)
         /\ Return(p, ZeroRowsError(timeout, req[p].id, ErrInsufficientCoinsBalance), NoUser)
    /\ UNCHANGED << users, nextId, now, req, ops, hist, kafka >>

(* -------------------------- ActivateSubscription ---------------------- *)
ActivateSubscriptionCall(p, ids, durations) ==
    /\ \E id \in ids : \E duration \in durations :
         LET r == [NoReq EXCEPT !.op = "ActivateSubscription", !.id = id,
                                !.duration = duration]
             err == FirstErr(ValidateID(id), ValidateDuration(duration))
         IN /\ Begin(p, r)
            /\ IF err # NoErr
               THEN Reject(p, err)
               ELSE Goto(p, "ActivateSubscription_GetByID", NoLoc)
    /\ UNCHANGED << users, nextId, now, faults, hist, kafka >>

BeginActivateSubscription(p) == ActivateSubscriptionCall(p, IdInputs, DurationInputs)

ActivateSubscription_GetByID(p) ==
    /\ pc[p] = "ActivateSubscription_GetByID"
    /\ \E timeout \in TimeoutChoices :
         LET r == Query(timeout, GetByID(users, req[p].id))
         IN /\ CountFault(p, timeout)
            /\ IF r.err # NoErr
               THEN Return(p, r.err, NoUser)
               ELSE Goto(p, "ActivateSubscription_AddCoinsAtomic",
                         [NoLoc EXCEPT !.user = r.user, !.endsAt = now + req[p].duration])
    /\ UNCHANGED << users, nextId, now, req, ops, hist, kafka >>

(* the activation that leaves the bonus for after the guard and goes
   straight to the guarded write *)
ActivateSubscription_BonusSkipped(p) ==
    /\ pc[p] = "ActivateSubscription_AddCoinsAtomic"
    /\ Goto(p, "ActivateSubscription_ActivateSubscriptionAtomic", loc[p])
    /\ UNCHANGED << users, nextId, now, req, ops, faults, obs, hist, kafka >>

ActivateSubscription_AddCoinsAtomic(p) ==
    /\ pc[p] = "ActivateSubscription_AddCoinsAtomic"
    /\ \E timeout \in TimeoutChoices :
         LET r == Exec(timeout, AddCoinsAtomic(users, req[p].id, SubscriptionBonus, now))
         IN /\ CountFault(p, timeout)
            /\ users' = r.users
            /\ Wrote(req[p].id, r, FALSE)
            /\ IF r.err # NoErr
               THEN Return(p, r.err, NoUser)
               ELSE Goto(p, "ActivateSubscription_ActivateSubscriptionAtomic", loc[p])
    /\ UNCHANGED << nextId, now, req, ops, kafka >>

ActivateSubscription_ActivateSubscriptionAtomic(p) ==
    /\ pc[p] = "ActivateSubscription_ActivateSubscriptionAtomic"
    /\ \E timeout \in TimeoutChoices :
         LET r == Exec(timeout, ActivateSubscriptionAtomic(users, req[p].id, FALSE,
                                    loc[p].user.TrialEndsAt, loc[p].endsAt, now))
         IN /\ CountFault(p, timeout)
            /\ users' = r.users
            /\ Wrote(req[p].id, r, TRUE)
            /\ IF r.err # NoErr
               THEN Return(p, r.err, NoUser)
               ELSE IF r.rows = 0
               THEN Goto(p, "ActivateSubscriptionAtomic_GetByID", loc[p])
               ELSE Return(p, NoErr, NoUser)
    /\ UNCHANGED << nextId, now, req, ops, kafka >>

ActivateSubscriptionAtomic_GetByID(p) ==
    /\ pc[p] = "ActivateSubscriptionAtomic_GetByID"
    /\ \E timeout \in TimeoutChoices :
         /\ CountFault(p, timeout)
         /\ Return(p, ZeroRowsError(timeout, req[p].id, ErrSubscriptionAlreadyActive), NoUser)
    /\ UNCHANGED << users, nextId, now, req, ops, hist, kafka >>

(* --------------------------- RenewSubscription ------------------------ *)
(* the renewal that always restarts from the current time *)
NewEndsAt_FromNow(user, duration, t) == t + duration

(* newEndsAt of RenewSubscription, from the snapshot it read *)
NewEndsAt(user, duration, t) ==
    IF user.SubscriptionEndsAt # NilTime /\ user.SubscriptionEndsAt > t
    THEN user.SubscriptionEndsAt + duration
    ELSE t + duration

RenewSubscriptionCall(p, ids, durations) ==
    /\ \E id \in ids : \E duration \in durations :
         LET r == [NoReq EXCEPT !.op = "RenewSubscription", !.id = id,
                                !.duration = duration]
             err == FirstErr(ValidateID(id), ValidateDuration(duration))
         IN /\ Begin(p, r)
            /\ IF err # NoErr
               THEN Reject(p, err)
               ELSE Goto(p, "RenewSubscription_GetByID", NoLoc)
    /\ UNCHANGED << users, nextId, now, faults, hist, kafka >>

BeginRenewSubscription(p) == RenewSubscriptionCall(p, IdInputs, DurationInputs)

RenewSubscription_GetByID(p) ==
    /\ pc[p] = "RenewSubscription_GetByID"
    /\ \E timeout \in TimeoutChoices :
         LET r == Query(timeout, GetByID(users, req[p].id))
         IN /\ CountFault(p, timeout)
            /\ IF r.err # NoErr
               THEN Return(p, r.err, NoUser)
               ELSE Goto(p, "RenewSubscription_AddCoinsAtomic",
                         [NoLoc EXCEPT !.user = r.user,
                                       !.endsAt = NewEndsAt(r.user, req[p].duration, now)])
    /\ UNCHANGED << users, nextId, now, req, ops, hist, kafka >>

RenewSubscription_AddCoinsAtomic(p) ==
    /\ pc[p] = "RenewSubscription_AddCoinsAtomic"
    /\ \E timeout \in TimeoutChoices :
         LET r == Exec(timeout, AddCoinsAtomic(users, req[p].id, SubscriptionBonus, now))
         IN /\ CountFault(p, timeout)
            /\ users' = r.users
            /\ Wrote(req[p].id, r, FALSE)
            /\ IF r.err # NoErr
               THEN Return(p, r.err, NoUser)
               ELSE Goto(p, "RenewSubscription_RenewSubscriptionAtomic", loc[p])
    /\ UNCHANGED << nextId, now, req, ops, kafka >>

RenewSubscription_RenewSubscriptionAtomic(p) ==
    /\ pc[p] = "RenewSubscription_RenewSubscriptionAtomic"
    /\ \E timeout \in TimeoutChoices :
         LET r == Exec(timeout, RenewSubscriptionAtomic(users, req[p].id, loc[p].endsAt, now))
         IN /\ CountFault(p, timeout)
            /\ users' = r.users
            /\ Wrote(req[p].id, r, FALSE)
            /\ IF r.err # NoErr
               THEN Return(p, r.err, NoUser)
               ELSE IF r.rows = 0
               THEN Goto(p, "RenewSubscriptionAtomic_GetByID", loc[p])
               ELSE Return(p, NoErr, NoUser)
    /\ UNCHANGED << nextId, now, req, ops, kafka >>

RenewSubscriptionAtomic_GetByID(p) ==
    /\ pc[p] = "RenewSubscriptionAtomic_GetByID"
    /\ \E timeout \in TimeoutChoices :
         /\ CountFault(p, timeout)
         /\ Return(p, ZeroRowsError(timeout, req[p].id, ErrNoActiveSubscription), NoUser)
    /\ UNCHANGED << users, nextId, now, req, ops, hist, kafka >>

(* ---------------------------- HasAccessByUser ------------------------- *)
(* the access rule read at the upper bound only (After, without Equal) *)
HasAccessByUser_AfterOnly(user, t) ==
    IF user = NoUser THEN FALSE
    ELSE IF user.Status # StatusActive THEN FALSE
    ELSE IF user.HasSubscription /\ user.SubscriptionEndsAt # NilTime
            /\ user.SubscriptionEndsAt > t
    THEN TRUE
    ELSE IF user.IsTrial /\ user.TrialEndsAt # NilTime /\ user.TrialEndsAt > t
    THEN TRUE
    ELSE FALSE

(* HasAccessByUser(user) evaluated at time t; NoUser stands for a nil user *)
HasAccessByUser(user, t) ==
    IF user = NoUser THEN FALSE
    ELSE IF user.Status # StatusActive THEN FALSE
    ELSE IF user.HasSubscription /\ user.SubscriptionEndsAt # NilTime
            /\ (user.SubscriptionEndsAt > t \/ user.SubscriptionEndsAt = t)
    THEN TRUE
    ELSE IF user.IsTrial /\ user.TrialEndsAt # NilTime
            /\ (user.TrialEndsAt > t \/ user.TrialEndsAt = t)
    THEN TRUE
    ELSE FALSE

(* one evaluation of HasAccessByUser on the user it was handed *)
HasAccessByUser_Call(p) ==
    /\ pc[p] = "HasAccessByUser"
    /\ pc' = [pc EXCEPT ![p] = "idle"]
    /\ res' = [res EXCEPT ![p] = [NoRes EXCEPT !.user = loc[p].user,
                                        !.access = HasAccessByUser(loc[p].user, now)]]
    /\ loc' = [loc EXCEPT ![p] = NoLoc]
    /\ UNCHANGED << users, nextId, now, req, ops, faults, obs, hist, kafka >>

(* ------------------------------ audit sink ---------------------------- *)
(* AuditPublisher.Publish: the broker acknowledges the message, reports a  *)
(* delivery error, or does not answer within 10 s                         *)
AuditOutcomes == {"delivered", "rejected", "timeout"}

Publish(outcome) ==
    CASE outcome = "delivered" -> NoErr
      [] outcome = "rejected" -> ErrDeliveryFailed
      [] outcome = "timeout" -> ErrDeliveryTimeout

(* the operations AuditService has an event for *)
AuditedOps ==
    {"CreateUser", "UpdateUser", "AddCoins", "DeductCoins",
     "ActivateSubscription", "RenewSubscription"}

(* AuditService.Record...: builds the event and returns what Publish returns *)
Record(op, outcome) == Publish(outcome)

(* the notification whose failure is handed to the caller of the operation *)
Swallow_Surfaced(result, auditErr) ==
    [result EXCEPT !.audit = auditErr, !.err = IF auditErr # NoErr THEN auditErr ELSE @]

(* what the service makes of the answer of the sink: it is logged, the
   result of the operation stays *)
Swallow(result, auditErr) == [result EXCEPT !.audit = auditErr]

(* on success the sink is notified, once, without blocking the result *)
Notify(p) ==
    /\ pc[p] = "idle"
    /\ req[p].op \in AuditedOps
    /\ res[p].err = NoErr
    /\ res[p].audit = NotSent
    /\ \E outcome \in AuditOutcomes :
         res' = [res EXCEPT ![p] = Swallow(res[p], Record(req[p].op, outcome))]
    /\ UNCHANGED << users, nextId, now, pc, req, loc, ops, faults, obs, hist, kafka >>

(* -------------------------------- clock ------------------------------- *)
TickUpTo(bound) ==
    /\ now < bound
    /\ now' = now + 1
    /\ UNCHANGED << users, nextId, pc, req, loc, res, ops, faults, obs, hist, kafka >>

Tick == TickUpTo(MaxTime)

Next ==
    \/ \E p \in Procs : BeginCreateUser(p)
    \/ \E p \in Procs : CreateUser_GetByEmail(p)
    \/ \E p \in Procs : CreateUser_Create(p)
    \/ \E p \in Procs : BeginUpdateUser(p)
    \/ \E p \in Procs : UpdateUser_GetByID(p)
    \/ \E p \in Procs : UpdateUser_GetByEmail(p)
    \/ \E p \in Procs : UpdateUser_Update(p)
    \/ \E p \in Procs : BeginDeleteUser(p)
    \/ \E p \in Procs : DeleteUser_Delete(p)
    \/ \E p \in Procs : BeginAddCoins(p)
    \/ \E p \in Procs : AddCoins_AddCoinsAtomic(p)
    \/ \E p \in Procs : BeginDeductCoins(p)
    \/ \E p \in Procs : DeductCoins_DeductCoinsAtomic(p)
    \/ \E p \in Procs : DeductCoinsAtomic_GetByID(p)
    \/ \E p \in Procs : BeginActivateSubscription(p)
    \/ \E p \in Procs : ActivateSubscription_GetByID(p)
    \/ \E p \in Procs : ActivateSubscription_AddCoinsAtomic(p)
    \/ \E p \in Procs : ActivateSubscription_ActivateSubscriptionAtomic(p)
    \/ \E p \in Procs : ActivateSubscriptionAtomic_GetByID(p)
    \/ \E p \in Procs : BeginRenewSubscription(p)
    \/ \E p \in Procs : RenewSubscription_GetByID(p)
    \/ \E p \in Procs : RenewSubscription_AddCoinsAtomic(p)
    \/ \E p \in Procs : RenewSubscription_RenewSubscriptionAtomic(p)
    \/ \E p \in Procs : RenewSubscriptionAtomic_GetByID(p)
    \/ Tick

Spec == Init /\ [][Next]_vars

(* ---------------------- requests served one at a time ----------------- *)
(* The same service receiving its requests one after the other: no call   *)
(* begins while another is running.                                       *)
NoCallRunning == \A q \in Procs : pc[q] = "idle"

(* the store calls of the running call *)
StoreCall(p) ==
    \/ CreateUser_GetByEmail(p)
    \/ CreateUser_Create(p)
    \/ UpdateUser_GetByID(p)
    \/ UpdateUser_GetByEmail(p)
    \/ UpdateUser_Update(p)
    \/ DeleteUser_Delete(p)
    \/ AddCoins_AddCoinsAtomic(p)
    \/ DeductCoins_DeductCoinsAtomic(p)
    \/ DeductCoinsAtomic_GetByID(p)
    \/ ActivateSubscription_GetByID(p)
    \/ ActivateSubscription_AddCoinsAtomic(p)
    \/ ActivateSubscription_ActivateSubscriptionAtomic(p)
    \/ ActivateSubscriptionAtomic_GetByID(p)
    \/ RenewSubscription_GetByID(p)
    \/ RenewSubscription_AddCoinsAtomic(p)
    \/ RenewSubscription_RenewSubscriptionAtomic(p)
    \/ RenewSubscriptionAtomic_GetByID(p)

(* ------------------------ calls that must return --------------------- *)
(* Concurrent calls on one account.  Every store call runs under          *)
(* context.WithTimeout(ctx, 5*time.Second): it completes or is cut off,   *)
(* so a goroutine that is at a store call does take that step.            *)
FairIds == {1}
FairCreateInputs == {[Email |-> EmailA, Name |-> NameN]}
FairCoins == {199}
FairDurations == {1}

FairCall(p) ==
    \/ CreateUserCall(p, FairCreateInputs)
    \/ UpdateUserCall(p, FairIds, UpdateInputs)
    \/ DeleteUserCall(p, FairIds)
    \/ AddCoinsCall(p, FairIds, FairCoins)
    \/ DeductCoinsCall(p, FairIds, FairCoins)
    \/ ActivateSubscriptionCall(p, FairIds, FairDurations)
    \/ RenewSubscriptionCall(p, FairIds, FairDurations)

FairNext ==
    \/ \E p \in Procs : FairCall(p)
    \/ \E p \in Procs : StoreCall(p)
    \/ Tick

FairSpec == Init /\ [][FairNext]_vars /\ \A p \in Procs : WF_vars(StoreCall(p))

(* well-formed requests over a longer stretch of time; the updates also
   repeat values the account already has next to values that change *)
MaxSeqTime == 3

SeqUpdateInputs ==
    UpdateInputs \cup
    {[Email |-> EmailA, Name |-> NameN, Status |-> StatusSuspended],
     [Email |-> EmailB, Name |-> NameM, Status |-> StatusActive]}

SeqCall(p) ==
    /\ NoCallRunning
    /\ \/ BeginCreateUser(p)
       \/ UpdateUserCall(p, IdInputs, SeqUpdateInputs)
       \/ BeginDeleteUser(p)
       \/ BeginAddCoins(p)
       \/ BeginDeductCoins(p)
       \/ BeginActivateSubscription(p)
       \/ BeginRenewSubscription(p)

SeqTick == TickUpTo(MaxSeqTime)

SeqNext ==
    \/ \E p \in Procs : SeqCall(p)
    \/ \E p \in Procs : StoreCall(p)
    \/ SeqTick

SeqSpec == Init /\ [][SeqNext]_vars

(* ------------------- the access rule on any account ------------------- *)
(* HasAccessByUser is a function of the user it is handed and of the      *)
(* clock: it is applied to every combination of the fields it reads, the  *)
(* nullable times absent, before, at and after the time of the call, and  *)
(* to a nil user.                                                         *)
MaxSnapshotTime == 2

SnapshotTimes == {NilTime} \cup (0 .. MaxSnapshotTime)

AccessSnapshots ==
    {NoUser} \cup
    {[NoUser EXCEPT !.ID = 1, !.Email = EmailA, !.Name = NameN,
                    !.Status = s, !.HasSubscription = h, !.SubscriptionEndsAt = se,
                    !.IsTrial = tr, !.TrialEndsAt = te, !.CreatedAt = 0, !.UpdatedAt = 0] :
        s \in ValidStatuses, h \in BOOLEAN, se \in SnapshotTimes,
        tr \in BOOLEAN, te \in SnapshotTimes}

AccessInit ==
    /\ users = << >>
    /\ nextId = 1
    /\ now = 0
    /\ pc = [p \in Procs |-> IF p = 1 THEN "HasAccessByUser" ELSE "idle"]
    /\ req = [p \in Procs |-> IF p = 1 THEN [NoReq EXCEPT !.op = "HasAccessByUser"] ELSE NoReq]
    /\ \E user \in AccessSnapshots :
         loc = [p \in Procs |-> IF p = 1 THEN [NoLoc EXCEPT !.user = user] ELSE NoLoc]
    /\ res = [p \in Procs |-> NoRes]
    /\ ops = 0
    /\ faults = 0
    /\ obs = [p \in Procs |-> NoObs]
    /\ hist = [id \in Ids |-> NoHist]
    /\ kafka = NoKafka

AccessNext ==
    \/ \E p \in Procs : HasAccessByUser_Call(p)
    \/ Tick

AccessSpec == AccessInit /\ [][AccessNext]_vars

(* everything a caller can send: empty and malformed ids, empty,          *)
(* malformed and oversized emails and names, unknown statuses, amounts    *)
(* and durations at and beyond their limits                               *)
StatusUnknown == "banned"

AnyIds == {EmptyID, BadID} \cup Ids
AnyCreateInputs ==
    [Email : {EmptyString, EmailA, EmailB, EmailNoAt, EmailLong},
     Name : {EmptyString, NameN, NameLong}]
AnyUpdateInputs ==
    [Email : {EmptyString, EmailA, EmailB, EmailNoAt, EmailLong},
     Name : {EmptyString, NameN, NameM, NameLong},
     Status : {NilStatus, StatusActive, StatusSuspended, StatusUnknown}]
AnyCoins == {-1, 0, 1, InitialCoinsBalance, MaxCoinsAmount, MaxCoinsAmount + 1}
AnyDurations == {-1, 0, 1, 2, MaxSubscriptionDurationHours, MaxSubscriptionDurationHours + 1}
AnyLimits == {-1, 0, 1, MaxListLimit, MaxListLimit + 1}
AnyOffsets == {-1, 0, 1, MaxListOffset, MaxListOffset + 1}

InputCall(p) ==
    /\ NoCallRunning
    /\ \/ CreateUserCall(p, AnyCreateInputs)
       \/ UpdateUserCall(p, AnyIds, AnyUpdateInputs)
       \/ DeleteUserCall(p, AnyIds)
       \/ AddCoinsCall(p, AnyIds, AnyCoins)
       \/ DeductCoinsCall(p, AnyIds, AnyCoins)
       \/ ActivateSubscriptionCall(p, AnyIds, AnyDurations)
       \/ RenewSubscriptionCall(p, AnyIds, AnyDurations)
       \/ ListUsersCall(p, AnyLimits, AnyOffsets)

InputNext ==
    \/ \E p \in Procs : InputCall(p)
    \/ \E p \in Procs : StoreCall(p)
    \/ \E p \in Procs : ListUsers_List(p)

InputSpec == Init /\ [][InputNext]_vars

(* ------------------ renewals of a running subscription ---------------- *)
(* The service at work on an account that was created and then activated   *)
(* for two hours at hour 0: concurrent renewals of that subscription, and  *)
(* its deletion.                                                          *)
Subscriber ==
    [NewUser(1, [Email |-> EmailA, Name |-> NameN], 0) EXCEPT
        !.CoinsBalance = InitialCoinsBalance + SubscriptionBonus,
        !.TotalCoinsPurchased = SubscriptionBonus,
        !.IsTrial = FALSE,
        !.HasSubscription = TRUE,
        !.SubscriptionEndsAt = 2,
        !.CreatedAt = 0,
        !.UpdatedAt = 0]

RenewInit ==
    /\ users = WithRow(<< >>, 1, Subscriber)
    /\ nextId = 2
    /\ now = 0
    /\ pc = [p \in Procs |-> "idle"]
    /\ req = [p \in Procs |-> NoReq]
    /\ loc = [p \in Procs |-> NoLoc]
    /\ res = [p \in Procs |-> NoRes]
    /\ ops = 0
    /\ faults = 0
    /\ obs = [p \in Procs |-> NoObs]
    /\ hist = [id \in Ids |-> IF id = 1 THEN [ver |-> 3, activated |-> 1] ELSE NoHist]
    /\ kafka = NoKafka

RenewNext ==
    \/ \E p \in Procs : RenewSubscriptionCall(p, FairIds, DurationInputs)
    \/ \E p \in Procs : RenewSubscription_GetByID(p)
    \/ \E p \in Procs : RenewSubscription_AddCoinsAtomic(p)
    \/ \E p \in Procs : RenewSubscription_RenewSubscriptionAtomic(p)
    \/ \E p \in Procs : RenewSubscriptionAtomic_GetByID(p)
    \/ \E p \in Procs : DeleteUserCall(p, FairIds)
    \/ \E p \in Procs : DeleteUser_Delete(p)
    \/ Tick

RenewSpec == RenewInit /\ [][RenewNext]_vars

(* --------------------- operations and their audit events -------------- *)
(* calls served one at a time, each successful one followed by its event   *)
AuditNext ==
    \/ \E p \in Procs : SeqCall(p)
    \/ \E p \in Procs : StoreCall(p)
    \/ \E p \in Procs : Notify(p)

AuditSpec == Init /\ [][AuditNext]_vars


(* ------------------------- the request handlers ----------------------- *)
(* A time.Duration is a signed 64-bit count of nanoseconds, kept here as   *)
(* its eight bytes, lowest first; arithmetic on it is modulo 2^64.         *)
Byte == 256

(* int64(n) of a non-negative int below 2^31 *)
Int64(n) == [i \in 1 .. 8 |-> IF i <= 4 THEN (n \div Byte ^ (i - 1)) % Byte ELSE 0]

(* time.Hour = 3600000000000 *)
Hour == << 0, 160, 184, 48, 70, 3, 0, 0 >>

RECURSIVE Column(_, _, _, _)
Column(a, b, k, i) ==
    IF i > k THEN 0 ELSE a[i] * b[k + 1 - i] + Column(a, b, k, i + 1)

RECURSIVE MulFrom(_, _, _, _)
MulFrom(a, b, k, carry) ==
    IF k > 8 THEN << >>
    ELSE LET s == carry + Column(a, b, k, 1)
         IN << s % Byte >> \o MulFrom(a, b, k + 1, s \div Byte)

(* a * b of two int64, wrapping around *)
Mul64(a, b) == MulFrom(a, b, 1, 0)

(* a < b of two int64: the one with the sign bit when only one has it,
   else by the highest byte that differs *)
Less(a, b) ==
    IF (a[8] >= Byte \div 2) # (b[8] >= Byte \div 2)
    THEN a[8] >= Byte \div 2
    ELSE \E i \in 1 .. 8 :
             /\ a[i] < b[i]
             /\ \A j \in (i + 1) .. 8 : a[j] = b[j]

(* a / m of a non-negative int64 by a small divisor, from byte i down *)
RECURSIVE DivFrom(_, _, _, _)
DivFrom(a, m, i, rem) ==
    IF i = 0 THEN << >>
    ELSE LET cur == rem * Byte + a[i]
         IN DivFrom(a, m, i - 1, cur % m) \o << cur \div m >>

(* the whole hours of a duration in (0, maxDuration]: instants are kept in
   hours, 3600000000000 = 8192 * 15625 * 28125 *)
WholeHours(duration) ==
    LET h == DivFrom(DivFrom(DivFrom(duration, 8192, 8, 0), 15625, 8, 0), 28125, 8, 0)
    IN h[1] + Byte * h[2] + Byte * Byte * h[3]

(* the duration checks of ActivateSubscription and RenewSubscription *)
ValidateDurationNanos(duration) ==
    LET maxDuration == Mul64(Int64(MaxSubscriptionDurationHours), Hour)
    IN IF ~Less(Int64(0), duration) THEN ErrInvalidSubscriptionDuration
       ELSE IF Less(maxDuration, duration) THEN ErrSubscriptionDurationTooLong
       ELSE NoErr

(* the status code and the message of the response to a failed call *)
handleError(err) ==
    CASE err = ErrUserNotFound -> [code |-> 404, msg |-> "user not found"]
      [] err = ErrEmailAlreadyExists ->
           [code |-> 409, msg |-> "user with this email already exists"]
      [] err = ErrEmailRequired -> [code |-> 400, msg |-> "email is required"]
      [] err = ErrNameRequired -> [code |-> 400, msg |-> "name is required"]
      [] err = ErrUserIDRequired -> [code |-> 400, msg |-> "user ID is required"]
      [] err = ErrInvalidEmailFormat -> [code |-> 400, msg |-> "invalid email format"]
      [] err = ErrInvalidStatus -> [code |-> 400, msg |-> "invalid status"]
      [] err = ErrInvalidCoinsAmount ->
           [code |-> 400, msg |-> "coins must be greater than 0"]
      [] err = ErrInsufficientCoinsBalance ->
           [code |-> 400, msg |-> "insufficient coins balance"]
      [] err = ErrInvalidSubscriptionDuration ->
           [code |-> 400, msg |-> "subscription duration must be greater than 0"]
      [] err = ErrSubscriptionAlreadyActive ->
           [code |-> 400, msg |-> "subscription already active"]
      [] err = ErrNoActiveSubscription ->
           [code |-> 400, msg |-> "user does not have an active subscription"]
      [] err = ErrEmailTooLong -> [code |-> 400, msg |-> "email is too long"]
      [] err = ErrNameTooLong -> [code |-> 400, msg |-> "name is too long"]
      [] err = ErrInvalidUUID -> [code |-> 400, msg |-> "invalid user ID format"]
      [] err = ErrCoinsAmountTooLarge -> [code |-> 400, msg |-> "coins amount is too large"]
      [] err = ErrListLimitTooLarge -> [code |-> 400, msg |-> "list limit is too large"]
      [] err = ErrListOffsetTooLarge -> [code |-> 400, msg |-> "list offset is too large"]
      [] OTHER -> [code |-> 500, msg |-> "internal server error"]

(* a request the handler answers itself, before calling the service *)
Refuse(p, reply) ==
    /\ pc' = [pc EXCEPT ![p] = "idle"]
    /\ loc' = [loc EXCEPT ![p] = NoLoc]
    /\ res' = [res EXCEPT ![p] = [NoRes EXCEPT !.reply = reply]]

(* server.ActivateSubscription and server.RenewSubscription up to the first
   store call of the service *)
SubscriptionHandler(p, op, ids, hours) ==
    /\ \E id \in ids : \E DurationHours \in hours :
         LET duration == Mul64(Int64(DurationHours), Hour)
             err == IF DurationHours <= 0 THEN NoErr
                    ELSE FirstErr(ValidateID(id), ValidateDurationNanos(duration))
             r == [NoReq EXCEPT !.op = op, !.id = id, !.DurationHours = DurationHours,
                                !.duration = IF DurationHours > 0 /\ err = NoErr
                                             THEN WholeHours(duration) ELSE 0]
         IN /\ Begin(p, r)
            /\ IF id = EmptyID
               THEN Refuse(p, [code |-> 400, msg |-> "user ID is required"])
               ELSE IF DurationHours <= 0
               THEN Refuse(p, [code |-> 400, msg |-> "duration_hours must be greater than 0"])
               ELSE IF err # NoErr
               THEN Reject(p, err)
               ELSE Goto(p, op \o "_GetByID", NoLoc)
    /\ UNCHANGED << users, nextId, now, faults, hist, kafka >>

(* the response written once the service has returned *)
Respond(p) ==
    /\ pc[p] = "idle"
    /\ req[p].op # "none"
    /\ res[p].reply = NoReply
    /\ res' = [res EXCEPT ![p].reply =
                  IF res[p].err # NoErr THEN handleError(res[p].err)
                  ELSE IF req[p].op = "CreateUser" THEN [code |-> 201, msg |-> ""]
                  ELSE [code |-> 200, msg |-> ""]]
    /\ UNCHANGED << users, nextId, now, pc, req, loc, ops, faults, obs, hist, kafka >>

(* duration_hours a client can send: none, the shortest, the longest, one
   more than the longest, and values whose nanoseconds pass 2^63 and 2^64 *)
HandlerHours ==
    {0, 1, MaxSubscriptionDurationHours, MaxSubscriptionDurationHours + 1,
     2562048, 5124097}

HandlerCall(p) ==
    /\ NoCallRunning
    /\ \A q \in Procs : req[q].op = "none" \/ res[q].reply # NoReply
    /\ \/ CreateUserCall(p, CreateInputs)
       \/ SubscriptionHandler(p, "ActivateSubscription", AnyIds, HandlerHours)
       \/ SubscriptionHandler(p, "RenewSubscription", AnyIds, HandlerHours)

HandlerNext ==
    \/ \E p \in Procs : HandlerCall(p)
    \/ \E p \in Procs : CreateUser_GetByEmail(p)
    \/ \E p \in Procs : CreateUser_Create(p)
    \/ \E p \in Procs : ActivateSubscription_GetByID(p)
    \/ \E p \in Procs : ActivateSubscription_AddCoinsAtomic(p)
    \/ \E p \in Procs : ActivateSubscription_ActivateSubscriptionAtomic(p)
    \/ \E p \in Procs : ActivateSubscriptionAtomic_GetByID(p)
    \/ \E p \in Procs : RenewSubscription_GetByID(p)
    \/ \E p \in Procs : RenewSubscription_AddCoinsAtomic(p)
    \/ \E p \in Procs : RenewSubscription_RenewSubscriptionAtomic(p)
    \/ \E p \in Procs : RenewSubscriptionAtomic_GetByID(p)
    \/ \E p \in Procs : Respond(p)

HandlerSpec == Init /\ [][HandlerNext]_vars


(* ------------------- AuditPublisher.Publish, step by step ------------- *)
(* deliveryChan := make(chan kafka.Event, 1) *)
MakeChan == [closed |-> FALSE, buf |-> << >>, cap |-> 1]

(* Producer.Produce keeping the message's Opaque as its delivery channel *)
Produce_OpaqueAsDeliveryChan(msg, deliveryChan) ==
    [deliveryChan |-> msg.Opaque, opaque |-> msg.Opaque]

(* p.producer.Produce(msg, deliveryChan): what the producer keeps of the
   message until its delivery report *)
Produce(msg, deliveryChan) == [deliveryChan |-> deliveryChan, opaque |-> msg.Opaque]

PublishCall(p) ==
    /\ Begin(p, [NoReq EXCEPT !.op = "Publish"])
    /\ kafka' = [kafka EXCEPT !.chans = Append(@, MakeChan)]
    /\ Goto(p, "Publish_Produce", [NoLoc EXCEPT !.deliveryChan = Len(kafka.chans) + 1])
    /\ UNCHANGED << users, nextId, now, faults, hist >>

(* return err, after the deferred close(deliveryChan) *)
PublishReturn(p, err, k) ==
    /\ kafka' = [k EXCEPT !.chans[loc[p].deliveryChan].closed = TRUE]
    /\ Return(p, err, NoUser)

Publish_Produce(p) ==
    /\ pc[p] = "Publish_Produce"
    /\ \/ PublishReturn(p, ErrProduceFailed, kafka)
       \/ /\ kafka' = [kafka EXCEPT !.msgs =
                          @ \cup {Produce([Opaque |-> loc[p].deliveryChan], NilChan)}]
          /\ Goto(p, "Publish_select", loc[p])
    /\ UNCHANGED << users, nextId, now, req, ops, faults, obs, hist >>

Publish_select(p) ==
    /\ pc[p] = "Publish_select"
    /\ LET ch == loc[p].deliveryChan
       IN \/ /\ kafka.chans[ch].buf # << >>
             /\ PublishReturn(p, Publish(Head(kafka.chans[ch].buf)),
                              [kafka EXCEPT !.chans[ch].buf = Tail(@)])
          \/ PublishReturn(p, Publish("timeout"), kafka)
          \/ PublishReturn(p, ErrCanceled, kafka)
    /\ UNCHANGED << users, nextId, now, req, ops, faults, obs, hist >>

(* the producer's poller hands out the delivery report of a message: on the
   delivery channel given to Produce, on Producer.Events() when none was
   given; a send on a closed channel panics *)
Deliver ==
    /\ ~kafka.panicked
    /\ \E m \in kafka.msgs : \E outcome \in {"delivered", "rejected"} :
         LET ch == m.deliveryChan
             k == [kafka EXCEPT !.msgs = @ \ {m}]
         IN IF ch = NilChan
            THEN kafka' = [k EXCEPT !.events =
                              Append(@, [Opaque |-> m.opaque, outcome |-> outcome,
                                         late |-> kafka.chans[m.opaque].closed])]
            ELSE IF kafka.chans[ch].closed
            THEN kafka' = [k EXCEPT !.panicked = TRUE]
            ELSE /\ Len(kafka.chans[ch].buf) < kafka.chans[ch].cap
                 /\ kafka' = [k EXCEPT !.chans[ch].buf = Append(@, outcome)]
    /\ UNCHANGED << users, nextId, now, pc, req, loc, res, ops, faults, obs, hist >>

PublishNext ==
    \/ \E p \in Procs : PublishCall(p)
    \/ \E p \in Procs : Publish_Produce(p)
    \/ \E p \in Procs : Publish_select(p)
    \/ Deliver

PublishSpec == Init /\ [][PublishNext]_vars


(* ============================== claims ================================ *)
Done(p, op) == pc[p] = "idle" /\ req[p].op = op

OkCount(S) == Cardinality({p \in S : res[p].err = NoErr})

(* C1: in every reachable state every existing account has
   coinsBalance >= 0, whatever calls ran and however they interleaved. *)
C1_BalanceNeverNegative ==
    \A id \in DOMAIN users : users[id].CoinsBalance >= 0

(* a debit larger than the balance was refused and the balance is intact *)
C1_Witness ==
    \E p \in Procs :
        /\ Done(p, "DeductCoins")
        /\ res[p].err = ErrInsufficientCoinsBalance
        /\ req[p].id \in DOMAIN users
        /\ users[req[p].id].CoinsBalance < req[p].coins
        /\ users[req[p].id].CoinsBalance > 0

(* two DeductCoins(id, a) calls that both began on the same version of the
   row, with balance b, neither cut off by a timeout, and that are the only
   writers of the row since *)
C2_ConcurrentPair(p, q) ==
    /\ p # q
    /\ Done(p, "DeductCoins") /\ Done(q, "DeductCoins")
    /\ req[p].id = req[q].id
    /\ req[p].id \in DOMAIN users
    /\ obs[p].found /\ obs[q].found
    /\ obs[p].hist.ver = obs[q].hist.ver
    /\ obs[p].timeouts = 0 /\ obs[q].timeouts = 0
    /\ hist[req[p].id].ver = obs[p].hist.ver + OkCount({p, q})

(* C2: of two concurrent DeductCoins(id, a) on a balance b with
   a <= b < 2a exactly one succeeds, the other fails InsufficientBalance and
   the balance ends at b - a; and two concurrent debits that both succeed
   never take more than the balance they began on. *)
C2_ConcurrentDeduct ==
    \A p, q \in Procs :
        C2_ConcurrentPair(p, q) =>
            LET id == req[p].id
                b == obs[p].row.CoinsBalance
            IN /\ (req[p].coins = req[q].coins /\ req[p].coins <= b /\ b < 2 * req[p].coins)
                    => /\ OkCount({p, q}) = 1
                       /\ \A r \in {p, q} :
                            res[r].err \in {NoErr, ErrInsufficientCoinsBalance}
                       /\ users[id].CoinsBalance = b - req[p].coins
               /\ OkCount({p, q}) = 2 => req[p].coins + req[q].coins <= b

(* both calls were in flight together on a balance that covers only one *)
C2_Witness ==
    \E p, q \in Procs :
        /\ C2_ConcurrentPair(p, q)
        /\ req[p].coins = req[q].coins
        /\ req[p].coins <= obs[p].row.CoinsBalance
        /\ obs[p].row.CoinsBalance < 2 * req[p].coins
        /\ res[p].err = NoErr
        /\ res[q].err = ErrInsufficientCoinsBalance


(* C3: while hasSubscription is true, a write of subscriptionEndsAt by
   RenewSubscription never stores a value earlier than the one it replaces,
   for every interleaving of RenewSubscription and ActivateSubscription. *)
C3_RenewNeverShortens ==
    [][\A p \in Procs :
          (/\ pc[p] = "RenewSubscription_RenewSubscriptionAtomic"
           /\ pc'[p] # pc[p]
           /\ req[p].id \in DOMAIN users
           /\ req[p].id \in DOMAIN users'
           /\ users[req[p].id].HasSubscription)
          => users'[req[p].id].SubscriptionEndsAt >= users[req[p].id].SubscriptionEndsAt]_vars

(* two ActivateSubscription calls on one account that both began while it
   had no subscription, neither cut off by a timeout, the account still there
   and activated by nobody but them *)
C4_ConcurrentPair(p, q) ==
    /\ p # q
    /\ Done(p, "ActivateSubscription") /\ Done(q, "ActivateSubscription")
    /\ req[p].id = req[q].id
    /\ req[p].id \in DOMAIN users
    /\ obs[p].found /\ ~obs[p].row.HasSubscription
    /\ obs[q].found /\ ~obs[q].row.HasSubscription
    /\ obs[p].timeouts = 0 /\ obs[q].timeouts = 0
    /\ hist[req[p].id].activated = OkCount({p, q})

(* C4: of two concurrent ActivateSubscription calls on an account with
   hasSubscription = false exactly one succeeds and the other returns
   AlreadyActive, for every interleaving of their store calls. *)
C4_ExactlyOneActivation ==
    \A p, q \in Procs :
        C4_ConcurrentPair(p, q) =>
            /\ OkCount({p, q}) = 1
            /\ \A r \in {p, q} : res[r].err \in {NoErr, ErrSubscriptionAlreadyActive}

(* both calls had read the account before either reached the guarded write *)
C4_Witness ==
    \E p, q \in Procs :
        /\ C4_ConcurrentPair(p, q)
        /\ obs[p].hist.ver = obs[q].hist.ver
        /\ res[p].err = ErrSubscriptionAlreadyActive
        /\ res[q].err = NoErr

(* the state part of C5 *)
C5_AtMostOnce ==
    /\ \A id \in Ids : hist[id].activated <= 1
    /\ \A p, q \in Procs :
         (/\ p # q
          /\ Done(p, "ActivateSubscription") /\ Done(q, "ActivateSubscription")
          /\ req[p].id = req[q].id
          /\ obs[p].found /\ obs[q].found)
         => OkCount({p, q}) <= 1
    /\ \A p \in Procs :
         (/\ Done(p, "ActivateSubscription")
          /\ ValidateDuration(req[p].duration) = NoErr
          /\ obs[p].hist.activated >= 1)
         => /\ res[p].err # NoErr
            /\ (obs[p].timeouts = 0 /\ req[p].id \in DOMAIN users)
                 => res[p].err = ErrSubscriptionAlreadyActive

(* C5: at most one ActivateSubscription ever succeeds on an account; a call
   that begins after a successful one fails, with AlreadyActive unless one of
   its store calls timed out or the account was deleted; and no step ever
   turns hasSubscription of an account from true to false. *)
C5_ActivationLatch ==
    /\ []C5_AtMostOnce
    /\ [][\A id \in DOMAIN users :
            (users[id].HasSubscription /\ id \in DOMAIN users')
            => users'[id].HasSubscription]_vars

(* a call that began on an activated account was told AlreadyActive *)
C5_Witness ==
    \E p \in Procs :
        /\ Done(p, "ActivateSubscription")
        /\ obs[p].hist.activated = 1
        /\ obs[p].found /\ obs[p].row.HasSubscription
        /\ res[p].err = ErrSubscriptionAlreadyActive
        /\ users[req[p].id].HasSubscription

(* C6: in every reachable state no two existing accounts have the same
   email, also when two CreateUser calls with one email both pass the email
   probe before either inserts, and when UpdateUser changes an email. *)
C6_EmailUnique ==
    \A i, j \in DOMAIN users : i # j => users[i].Email # users[j].Email

(* two creations of one email both passed the probe; the second insert was
   refused by the constraint *)
C6_Witness ==
    \E p, q \in Procs :
        /\ p # q
        /\ Done(p, "CreateUser") /\ Done(q, "CreateUser")
        /\ req[p].Email = req[q].Email
        /\ res[p].err = NoErr
        /\ res[q].err = ErrUniqueViolation
        /\ Cardinality({i \in DOMAIN users : users[i].Email = req[p].Email}) = 1


SubscriptionOps == {"ActivateSubscription", "RenewSubscription"}
BonusLabels == {"ActivateSubscription_AddCoinsAtomic", "RenewSubscription_AddCoinsAtomic"}
GuardLabels ==
    {"ActivateSubscription_ActivateSubscriptionAtomic",
     "RenewSubscription_RenewSubscriptionAtomic"}
FollowUpLabels == {"ActivateSubscriptionAtomic_GetByID", "RenewSubscriptionAtomic_GetByID"}
ReadLabels == {"ActivateSubscription_GetByID", "RenewSubscription_GetByID"}

(* the step is a store call of p that was not cut off *)
Completes(p) == pc'[p] # pc[p] /\ pc[p] # "idle" /\ obs'[p].timeouts = obs[p].timeouts

Credited(id, amount) ==
    /\ id \in DOMAIN users /\ id \in DOMAIN users'
    /\ users'[id].CoinsBalance = users[id].CoinsBalance + amount
    /\ users'[id].TotalCoinsPurchased = users[id].TotalCoinsPurchased + amount

CoinsUnchanged ==
    /\ DOMAIN users' = DOMAIN users
    /\ \A id \in DOMAIN users :
         /\ users'[id].CoinsBalance = users[id].CoinsBalance
         /\ users'[id].TotalCoinsPurchased = users[id].TotalCoinsPurchased

(* the state part of C7: a call rejected by its guard, the only writer of the
   row since it began, left the row 5000 richer and its subscription as it was *)
C7_BonusKept ==
    \A p \in Procs :
        (/\ pc[p] = "idle"
         /\ req[p].op \in SubscriptionOps
         /\ res[p].err \in {ErrSubscriptionAlreadyActive, ErrNoActiveSubscription}
         /\ req[p].id \in DOMAIN users
         /\ hist[req[p].id].ver = obs[p].hist.ver + 1)
        => LET row == users[req[p].id] IN
           /\ res[p].err = IF req[p].op = "ActivateSubscription"
                           THEN ErrSubscriptionAlreadyActive ELSE ErrNoActiveSubscription
           /\ row.CoinsBalance = obs[p].row.CoinsBalance + SubscriptionBonus
           /\ row.TotalCoinsPurchased = obs[p].row.TotalCoinsPurchased + SubscriptionBonus
           /\ row.HasSubscription = obs[p].row.HasSubscription
           /\ row.SubscriptionEndsAt = obs[p].row.SubscriptionEndsAt

(* the step part of C7 *)
C7_Step ==
    \A p \in Procs :
        (pc'[p] # pc[p] /\ (req[p].op \in SubscriptionOps \/ req'[p].op \in SubscriptionOps)) =>
            \* the read that finds the account leads to the credit
            /\ (pc[p] \in ReadLabels /\ Completes(p) /\ req[p].id \in DOMAIN users)
                 => pc'[p] \in BonusLabels
            \* the credit adds 5000 to both counters and leads to the guard
            /\ (pc[p] \in BonusLabels /\ Completes(p) /\ req[p].id \in DOMAIN users)
                 => Credited(req[p].id, SubscriptionBonus) /\ pc'[p] \in GuardLabels
            \* the guarded write is reached only through the credit
            /\ pc'[p] \in GuardLabels
                 => pc[p] \in BonusLabels /\ Credited(req[p].id, SubscriptionBonus)
            \* no other step of the call touches the coins
            /\ pc[p] \notin BonusLabels => CoinsUnchanged
            \* a rejecting guard changes nothing and its error is returned
            /\ pc'[p] \in FollowUpLabels => pc[p] \in GuardLabels /\ users' = users
            /\ (pc[p] \in FollowUpLabels /\ Completes(p) /\ req[p].id \in DOMAIN users)
                 => /\ pc'[p] = "idle"
                    /\ res'[p].err = IF req[p].op = "ActivateSubscription"
                                     THEN ErrSubscriptionAlreadyActive
                                     ELSE ErrNoActiveSubscription

(* C7: an ActivateSubscription or RenewSubscription call whose read finds
   the account credits the 5000 bonus to coinsBalance and totalCoinsPurchased
   exactly once, before it attempts the guarded write; when the guard rejects,
   the call returns AlreadyActive (NoActiveSubscription for a renewal) and the
   bonus stays: the account is 5000 richer and its subscription unchanged. *)
C7_BonusBeforeGuard == []C7_BonusKept /\ [][C7_Step]_vars

(* an activation of an already active account was refused after its credit *)
C7_Witness ==
    \E p \in Procs :
        /\ Done(p, "ActivateSubscription")
        /\ res[p].err = ErrSubscriptionAlreadyActive
        /\ obs[p].found /\ obs[p].row.HasSubscription
        /\ req[p].id \in DOMAIN users
        /\ hist[req[p].id].ver = obs[p].hist.ver + 1
        /\ users[req[p].id].CoinsBalance = obs[p].row.CoinsBalance + SubscriptionBonus

(* C8: on an existing account with balance b, the conditional write of
   DeductCoins(id, a) succeeds and leaves b - a iff a <= b; with a > b the
   call fails InsufficientBalance and changes neither coinsBalance nor
   totalCoinsPurchased. *)
C8_DeductIffSufficient ==
    [][\A p \in Procs :
         LET id == req[p].id
             a == req[p].coins
         IN /\ (pc[p] = "DeductCoins_DeductCoinsAtomic" /\ Completes(p) /\ id \in DOMAIN users)
                 => IF a <= users[id].CoinsBalance
                    THEN /\ pc'[p] = "idle" /\ res'[p].err = NoErr
                         /\ users' = [users EXCEPT ![id].CoinsBalance = @ - a,
                                                   ![id].UpdatedAt = now]
                    ELSE /\ pc'[p] = "DeductCoinsAtomic_GetByID"
                         /\ users' = users
            /\ (pc[p] = "DeductCoinsAtomic_GetByID" /\ Completes(p) /\ id \in DOMAIN users)
                 => /\ pc'[p] = "idle" /\ res'[p].err = ErrInsufficientCoinsBalance
                    /\ users' = users
            /\ (pc[p] # "idle" /\ pc'[p] = "idle" /\ req[p].op = "DeductCoins"
                  /\ res'[p].err = NoErr)
                 => /\ pc[p] = "DeductCoins_DeductCoinsAtomic"
                    /\ id \in DOMAIN users
                    /\ a <= users[id].CoinsBalance]_vars

(* a debit of exactly the balance succeeded and emptied the account *)
C8_Witness ==
    \E p \in Procs :
        /\ Done(p, "DeductCoins")
        /\ res[p].err = NoErr
        /\ obs[p].found
        /\ obs[p].row.CoinsBalance = req[p].coins
        /\ req[p].id \in DOMAIN users
        /\ users[req[p].id].CoinsBalance = 0

(* signed effect on the balance of a returned coin call *)
CoinDelta(p) == IF req[p].op = "AddCoins" THEN req[p].coins ELSE 0 - req[p].coins

(* an AddCoins and another coin call that began on the same version of the
   row, both successful, and the only writers of the row since *)
C9_ConcurrentPair(p, q) ==
    /\ p # q
    /\ Done(p, "AddCoins")
    /\ pc[q] = "idle" /\ req[q].op \in {"AddCoins", "DeductCoins"}
    /\ res[p].err = NoErr /\ res[q].err = NoErr
    /\ req[p].id = req[q].id
    /\ req[p].id \in DOMAIN users
    /\ obs[p].found /\ obs[q].found
    /\ obs[p].hist.ver = obs[q].hist.ver
    /\ hist[req[p].id].ver = obs[p].hist.ver + 2

(* the state part of C9: no credit is lost *)
C9_NoCreditLost ==
    \A p, q \in Procs :
        C9_ConcurrentPair(p, q) =>
            LET row == users[req[p].id] IN
            /\ row.CoinsBalance = obs[p].row.CoinsBalance + req[p].coins + CoinDelta(q)
            /\ row.TotalCoinsPurchased =
                 obs[p].row.TotalCoinsPurchased + req[p].coins
                   + (IF req[q].op = "AddCoins" THEN req[q].coins ELSE 0)

(* the step part of C9: a successful credit changes exactly these fields *)
C9_Step ==
    \A p \in Procs :
        (pc[p] = "AddCoins_AddCoinsAtomic" /\ pc'[p] = "idle" /\ res'[p].err = NoErr) =>
            /\ req[p].id \in DOMAIN users
            /\ users' = [users EXCEPT ![req[p].id] =
                            [@ EXCEPT !.CoinsBalance = @ + req[p].coins,
                                      !.TotalCoinsPurchased = @ + req[p].coins,
                                      !.UpdatedAt = now]]

(* C9: a successful AddCoins(id, a), 1 <= a <= MAX_COINS, raises
   coinsBalance and totalCoinsPurchased of the account by exactly a and
   changes nothing else but updatedAt, also when it interleaves with another
   AddCoins or DeductCoins on the account. *)
C9_AddCoinsExact == []C9_NoCreditLost /\ [][C9_Step]_vars

(* a credit and a debit of one account were in flight together *)
C9_Witness ==
    \E p, q \in Procs :
        /\ C9_ConcurrentPair(p, q)
        /\ req[q].op = "DeductCoins"
        /\ req[p].coins # req[q].coins

DeductOrUpdateLabels ==
    {"DeductCoins_DeductCoinsAtomic", "DeductCoinsAtomic_GetByID", "UpdateUser_GetByID",
     "UpdateUser_GetByEmail", "UpdateUser_Update"}

(* the state part of C10 *)
C10_TotalNonNegative ==
    \A id \in DOMAIN users : users[id].TotalCoinsPurchased >= 0

(* C10: totalCoinsPurchased of every account is >= 0 and no step lowers
   it; the steps of DeductCoins and UpdateUser do not change it. *)
C10_TotalMonotone ==
    /\ []C10_TotalNonNegative
    /\ [][/\ \A id \in DOMAIN users :
               id \in DOMAIN users'
               => users'[id].TotalCoinsPurchased >= users[id].TotalCoinsPurchased
          /\ \A p \in Procs :
               (pc[p] \in DeductOrUpdateLabels /\ pc'[p] # pc[p])
               => \A id \in DOMAIN users :
                    id \in DOMAIN users'
                    /\ users'[id].TotalCoinsPurchased = users[id].TotalCoinsPurchased]_vars

(* coins were bought and then spent: the total kept what was bought *)
C10_Witness ==
    \E p \in Procs :
        /\ Done(p, "DeductCoins")
        /\ res[p].err = NoErr
        /\ req[p].id \in DOMAIN users
        /\ obs[p].row.TotalCoinsPurchased > 0
        /\ users[req[p].id].TotalCoinsPurchased = obs[p].row.TotalCoinsPurchased
        /\ users[req[p].id].CoinsBalance < obs[p].row.CoinsBalance


(* the step part of C11 *)
C11_Step ==
    \A p \in Procs :
        LET id == req[p].id
            d == req[p].duration
        IN \* the read that finds the account fixes the new end
           /\ (pc[p] = "RenewSubscription_GetByID"
                 /\ pc'[p] = "RenewSubscription_AddCoinsAtomic")
                => LET prev == users[id].SubscriptionEndsAt
                   IN loc'[p].endsAt = IF prev # NilTime /\ prev > now
                                       THEN prev + d
                                       ELSE now + d
           \* nobody else touches the subscription before the write
           /\ (pc[p] \in {"RenewSubscription_AddCoinsAtomic",
                           "RenewSubscription_RenewSubscriptionAtomic"}
                 /\ id \in DOMAIN users)
                => users[id].SubscriptionEndsAt = loc[p].user.SubscriptionEndsAt
           \* the successful write stores that end
           /\ (pc[p] = "RenewSubscription_RenewSubscriptionAtomic"
                 /\ pc'[p] = "idle" /\ res'[p].err = NoErr)
                => /\ id \in DOMAIN users'
                   /\ users'[id].SubscriptionEndsAt = loc[p].endsAt
                   /\ users'[id].HasSubscription

(* C11: a RenewSubscription(id, duration) that succeeds with no other call
   running sets subscriptionEndsAt to the previous value + duration when the
   previous value is strictly later than the time of the call, and to that
   time + duration when the previous value is absent or not later. *)
C11_RenewAdditive == [][C11_Step]_vars

(* a renewal of a subscription that had run out restarted it from the time of
   the call, later than the old end *)
C11_Witness ==
    \E p \in Procs :
        /\ Done(p, "RenewSubscription")
        /\ res[p].err = NoErr
        /\ obs[p].found /\ obs[p].row.HasSubscription
        /\ req[p].id \in DOMAIN users
        /\ hist[req[p].id].ver = obs[p].hist.ver + 2
        /\ users[req[p].id].SubscriptionEndsAt - req[p].duration
             > obs[p].row.SubscriptionEndsAt


(* C12: HasAccessByUser returns true iff status = active and
   ((hasSubscription and subscriptionEndsAt is present and >= now) or
   (isTrial and trialEndsAt is present and >= now)); it returns false for
   every other status whatever the other fields hold, and for a nil user. *)
C12_AccessRule ==
    [][\A p \in Procs :
         (pc[p] = "HasAccessByUser" /\ pc'[p] = "idle") =>
            LET user == loc[p].user
                access == res'[p].access
            IN /\ user # NoUser =>
                    (access <=>
                       /\ user.Status = StatusActive
                       /\ \/ /\ user.HasSubscription
                             /\ user.SubscriptionEndsAt # NilTime
                             /\ user.SubscriptionEndsAt >= now
                          \/ /\ user.IsTrial
                             /\ user.TrialEndsAt # NilTime
                             /\ user.TrialEndsAt >= now)
               /\ (user # NoUser /\ user.Status # StatusActive) => ~access
               /\ user = NoUser => ~access]_vars

(* access was granted by a subscription that ends at the very time of the
   call, the trial playing no part *)
C12_Witness ==
    \E p \in Procs :
        /\ Done(p, "HasAccessByUser")
        /\ res[p].access
        /\ res[p].user.HasSubscription
        /\ res[p].user.SubscriptionEndsAt = now
        /\ ~res[p].user.IsTrial


(* the state part of C13: an active account whose trial window is still open
   has access, with or without a paid subscription, running or run out *)
C13_TrialAccess ==
    \A id \in DOMAIN users :
        (/\ users[id].Status = StatusActive
         /\ users[id].TrialEndsAt # NilTime
         /\ users[id].TrialEndsAt >= now)
        => HasAccessByUser(users[id], now)

(* C13: a successful ActivateSubscription leaves isTrial and trialEndsAt of
   the account unchanged, so an active account whose trial window has not
   ended keeps its access by the trial rule after the activation, also once
   the paid subscription has run out. *)
C13_TrialIndependent ==
    /\ []C13_TrialAccess
    /\ [][\A p \in Procs :
            (/\ pc[p] = "ActivateSubscription_ActivateSubscriptionAtomic"
             /\ pc'[p] = "idle"
             /\ res'[p].err = NoErr)
            => /\ users'[req[p].id].IsTrial = users[req[p].id].IsTrial
               /\ users'[req[p].id].TrialEndsAt = users[req[p].id].TrialEndsAt]_vars


EmailHeld(email) == \E id \in DOMAIN users : users[id].Email = email

(* C14: a CreateUser call that fails because its email is held by another
   account returns ErrEmailAlreadyExists and creates no account, both when
   its probe finds the account and when the UNIQUE constraint rejects its
   insert after a concurrent creation with the same email. *)
C14_ConflictOnDuplicate ==
    [][\A p \in Procs :
         (/\ pc[p] \in {"CreateUser_GetByEmail", "CreateUser_Create"}
          /\ Completes(p)
          /\ EmailHeld(req[p].Email))
         => /\ pc'[p] = "idle"
            /\ res'[p].err = ErrEmailAlreadyExists
            /\ users' = users]_vars


(* the errors of a refused input *)
InvalidInputErrors ==
    {ErrEmailRequired, ErrEmailTooLong, ErrInvalidEmailFormat, ErrNameRequired,
     ErrNameTooLong, ErrUserIDRequired, ErrInvalidUUID, ErrInvalidStatus,
     ErrInvalidCoinsAmount, ErrCoinsAmountTooLarge, ErrInvalidSubscriptionDuration,
     ErrSubscriptionDurationTooLong, ErrListLimitTooLarge, ErrListOffsetTooLarge}

(* C15: a call of any operation that returns a validation error returns it
   before issuing any store call, read or write, and leaves the accounts
   unchanged: no call that has reached a store call returns one. *)
C15_ValidationFirst ==
    [][\A p \in Procs :
         (/\ pc'[p] = "idle"
          /\ (pc[p] # "idle" \/ ops' # ops)
          /\ res'[p].err \in InvalidInputErrors)
         => /\ pc[p] = "idle"
            /\ faults' = faults
            /\ users' = users]_vars


(* the state part of C16: no call one of whose store calls timed out reports
   success *)
C16_NoSuccessAfterTimeout ==
    \A p \in Procs :
        (pc[p] = "idle" /\ req[p].op # "none" /\ obs[p].timeouts > 0)
        => res[p].err # NoErr

(* C16: when a store call of an operation times out, the operation returns
   an error to its caller there and then and does not go on; this holds for
   every store call, the email probes of CreateUser and UpdateUser included. *)
C16_TimeoutFails ==
    /\ []C16_NoSuccessAfterTimeout
    /\ [][\A p \in Procs :
            (pc[p] # "idle" /\ obs'[p].timeouts > obs[p].timeouts)
            => pc'[p] = "idle" /\ res'[p].err # NoErr]_vars


(* the store calls in the order the operations issue them *)
StoreCallOrder ==
    << "CreateUser_GetByEmail", "CreateUser_Create",
       "UpdateUser_GetByID", "UpdateUser_GetByEmail", "UpdateUser_Update",
       "DeleteUser_Delete",
       "ListUsers_List",
       "AddCoins_AddCoinsAtomic",
       "DeductCoins_DeductCoinsAtomic", "DeductCoinsAtomic_GetByID",
       "ActivateSubscription_GetByID", "ActivateSubscription_AddCoinsAtomic",
       "ActivateSubscription_ActivateSubscriptionAtomic",
       "ActivateSubscriptionAtomic_GetByID",
       "RenewSubscription_GetByID", "RenewSubscription_AddCoinsAtomic",
       "RenewSubscription_RenewSubscriptionAtomic", "RenewSubscriptionAtomic_GetByID",
       "idle" >>

Rank(label) == CHOOSE i \in DOMAIN StoreCallOrder : StoreCallOrder[i] = label

(* the step is a store call of p, completed or cut off *)
Issues(p) ==
    /\ pc[p] # "idle"
    /\ pc'[p] # pc[p] \/ obs'[p] # obs[p] \/ res'[p] # res[p]

(* C17: every call eventually returns, given that each store call completes
   or is cut off by its timeout; every store call of a call, timed out or
   not, takes the call strictly forward to a later store call or to its
   return, so that none is repeated. *)
C17_EventuallyReturns ==
    /\ \A p \in Procs : (pc[p] # "idle") ~> (pc[p] = "idle")
    /\ [][\A p \in Procs : Issues(p) => Rank(pc'[p]) > Rank(pc[p])]_vars

(* a renewal credited its bonus, was cut off at its guarded write by the
   timeout, and returned the timeout error *)
C17_Witness ==
    \E p \in Procs :
        /\ Done(p, "RenewSubscription")
        /\ obs[p].timeouts = 1
        /\ res[p].err = ErrDeadline
        /\ req[p].id \in DOMAIN users
        /\ hist[req[p].id].ver = obs[p].hist.ver + 1
        /\ users[req[p].id].CoinsBalance = obs[p].row.CoinsBalance + SubscriptionBonus


(* the operations that work on the account of a given id *)
IdOps ==
    {"UpdateUser", "DeleteUser", "AddCoins", "DeductCoins",
     "ActivateSubscription", "RenewSubscription"}

(* the state part of C18: a call on an id that named no account when the call
   began, and none since, returned NotFound *)
C18_NotFoundReturned ==
    \A p \in Procs :
        (/\ pc[p] = "idle"
         /\ req[p].op \in IdOps
         /\ res[p].err \notin InvalidInputErrors
         /\ ~obs[p].found
         /\ hist[req[p].id] = obs[p].hist
         /\ obs[p].timeouts = 0)
        => res[p].err = ErrUserNotFound

(* the step part of C18: a store call on an id that names no account (every
   store call of these operations but the email probe of UpdateUser) changes
   no account and creates none, and ends the call with NotFound, at once or
   after the existence read that follows an update of zero rows *)
C18_Step ==
    \A p \in Procs :
        (/\ req[p].op \in IdOps
         /\ pc[p] \notin {"idle", "UpdateUser_GetByEmail"}
         /\ req[p].id \notin DOMAIN users
         /\ Completes(p))
        => /\ users' = users
           /\ \/ pc'[p] = "idle" /\ res'[p].err = ErrUserNotFound
              \/ /\ pc[p] \in {"DeductCoins_DeductCoinsAtomic",
                                "ActivateSubscription_ActivateSubscriptionAtomic",
                                "RenewSubscription_RenewSubscriptionAtomic"}
                 /\ pc'[p] \in {"DeductCoinsAtomic_GetByID"} \cup FollowUpLabels

(* C18: for a well-formed id that matches no account, AddCoins, DeductCoins,
   ActivateSubscription, RenewSubscription, UpdateUser and DeleteUser return
   ErrUserNotFound, create no row and change no account; the subscription
   operations credit no bonus. *)
C18_NotFound == []C18_NotFoundReturned /\ [][C18_Step]_vars

(* an activation of an id without account was refused while another account
   existed and kept its coins *)
C18_Witness ==
    \E p \in Procs :
        /\ Done(p, "ActivateSubscription")
        /\ res[p].err = ErrUserNotFound
        /\ ~obs[p].found
        /\ req[p].id \notin DOMAIN users
        /\ \E id \in DOMAIN users : users[id].CoinsBalance = InitialCoinsBalance


(* the account of id existed and was deleted *)
Deleted(id) == id \in Ids /\ id \notin DOMAIN users /\ hist[id].ver > 0

(* the state part of C19: a call that began on a deleted id failed, with
   NotFound unless one of its store calls timed out *)
C19_LaterCallsFail ==
    \A p \in Procs :
        (/\ pc[p] = "idle"
         /\ req[p].op \in IdOps
         /\ res[p].err \notin InvalidInputErrors
         /\ ~obs[p].found
         /\ obs[p].hist.ver > 0)
        => /\ res[p].err # NoErr
           /\ obs[p].timeouts = 0 => res[p].err = ErrUserNotFound

(* the step part of C19 *)
C19_Step ==
    \* a successful DeleteUser removes the row, and only that row
    /\ \A p \in Procs :
         (pc[p] = "DeleteUser_Delete" /\ pc'[p] = "idle" /\ res'[p].err = NoErr)
         => /\ req[p].id \in DOMAIN users
            /\ users' = WithoutRow(users, req[p].id)
    \* a deleted account never comes back
    /\ \A id \in Ids : Deleted(id) => id \notin DOMAIN users'
    \* a call on the deleted id, also one that had read the account before the
    \* delete, changes nothing and does not succeed; its reads and writes of
    \* the id end it with NotFound
    /\ \A p \in Procs :
         (req[p].op \in IdOps /\ pc[p] # "idle" /\ Deleted(req[p].id) /\ pc'[p] # pc[p])
         => /\ users' = users
            /\ pc'[p] = "idle" => res'[p].err # NoErr
            /\ (Completes(p) /\ pc[p] # "UpdateUser_GetByEmail")
                 => \/ pc'[p] = "idle" /\ res'[p].err = ErrUserNotFound
                    \/ pc'[p] \in {"DeductCoinsAtomic_GetByID"} \cup FollowUpLabels

(* C19: DeleteUser is a hard delete with no undo: after it succeeds the
   account never exists again, and every later call on the id, one that read
   the account before the delete and writes after it included, fails with
   NotFound and modifies no account. *)
C19_HardDelete == []C19_LaterCallsFail /\ [][C19_Step]_vars

(* an activation read the account and credited its bonus, the account was
   deleted, and the guarded write that came after found nothing *)
C19_Witness ==
    \E p \in Procs :
        /\ Done(p, "ActivateSubscription")
        /\ obs[p].found
        /\ obs[p].timeouts = 0
        /\ Deleted(req[p].id)
        /\ hist[req[p].id].ver = obs[p].hist.ver + 2
        /\ res[p].err = ErrUserNotFound


(* the fields of a request that differ from a row, as UpdateUserFields *)
Differing(r, row) ==
    [Email |-> IF r.Email # EmptyString /\ r.Email # row.Email THEN r.Email ELSE NilString,
     Name |-> IF r.Name # EmptyString /\ r.Name # row.Name THEN r.Name ELSE NilString,
     Status |-> IF r.Status # NilStatus /\ r.Status # row.Status THEN r.Status ELSE NilStatus]

(* a row with the supplied fields replaced and updated_at set *)
Patched(row, fields, t) ==
    [row EXCEPT !.Email = IF fields.Email # NilString THEN fields.Email ELSE @,
                !.Name = IF fields.Name # NilString THEN fields.Name ELSE @,
                !.Status = IF fields.Status # NilStatus THEN fields.Status ELSE @,
                !.UpdatedAt = t]

(* the state part of C20: the store's Update with no supplied field writes
   nothing, whatever the id *)
C20_EmptyUpdateNoWrite ==
    \A id \in Ids : Update(users, id, NoFields, now) = StmtResult(NoErr, 0, users)

(* the step part of C20, calls being served one at a time *)
C20_Step ==
    \A p \in Procs :
        LET id == req[p].id IN
        \* nothing differs from the row read: no write, the row read is returned
        /\ (/\ pc[p] = "UpdateUser_GetByID" /\ Completes(p)
            /\ id \in DOMAIN users
            /\ Differing(req[p], users[id]) = NoFields)
             => /\ pc'[p] = "idle"
                /\ res'[p].err = NoErr
                /\ res'[p].user = users[id]
                /\ users' = users
        \* the reads of the call write nothing
        /\ (pc[p] \in {"UpdateUser_GetByID", "UpdateUser_GetByEmail"} /\ pc'[p] # pc[p])
             => users' = users
        \* the write is handed exactly the fields that differ
        /\ (pc'[p] = "UpdateUser_Update" /\ pc[p] # "UpdateUser_Update")
             => /\ id \in DOMAIN users
                /\ loc'[p].fields = Differing(req[p], users[id])
                /\ loc'[p].fields # NoFields
        \* and the write replaces exactly those fields, in one statement
        /\ (pc[p] = "UpdateUser_Update" /\ pc'[p] = "idle" /\ res'[p].err = NoErr)
             => /\ id \in DOMAIN users
                /\ users' = [users EXCEPT ![id] =
                                Patched(@, Differing(req[p], users[id]), now)]

(* C20: UpdateUser writes exactly the fields among email, name and status
   whose requested value differs from the value it read, in a single store
   write; when none differs it issues no write, leaves updatedAt alone and
   returns the account it read; and the store's Update with no supplied field
   performs no write. *)
C20_WritesOnlyChanges == []C20_EmptyUpdateNoWrite /\ [][C20_Step]_vars

(* a request repeated the name the account has and changed its status: the
   status was written, at a later hour than the last write *)
C20_Witness ==
    \E p \in Procs :
        /\ Done(p, "UpdateUser")
        /\ res[p].err = NoErr
        /\ obs[p].found
        /\ req[p].id \in DOMAIN users
        /\ hist[req[p].id].ver = obs[p].hist.ver + 1
        /\ req[p].Name = obs[p].row.Name
        /\ req[p].Status # NilStatus /\ req[p].Status # obs[p].row.Status
        /\ users[req[p].id] =
             [obs[p].row EXCEPT !.Status = req[p].Status, !.UpdatedAt = now]
        /\ now > obs[p].row.UpdatedAt


(* the fields of an account that UpdateUser has no business with *)
LedgerFields(row) ==
    << row.CoinsBalance, row.TotalCoinsPurchased, row.IsTrial, row.TrialEndsAt,
       row.HasSubscription, row.SubscriptionEndsAt >>

UpdateLabels == {"UpdateUser_GetByID", "UpdateUser_GetByEmail", "UpdateUser_Update"}

LedgerOps == {"AddCoins", "DeductCoins", "ActivateSubscription", "RenewSubscription"}

(* number of statements a successful call of the operation writes with *)
WritesOf(op) == IF op \in SubscriptionOps THEN 2 ELSE 1

(* a successful UpdateUser that wrote and a successful ledger operation that
   began on the same version of the row, the only writers of the row since:
   the two calls overlapped *)
C21_ConcurrentPair(p, q) ==
    /\ p # q
    /\ Done(p, "UpdateUser")
    /\ pc[q] = "idle" /\ req[q].op \in LedgerOps
    /\ res[p].err = NoErr /\ res[q].err = NoErr
    /\ req[p].id = req[q].id
    /\ req[p].id \in DOMAIN users
    /\ obs[p].found /\ obs[q].found
    /\ obs[p].hist.ver = obs[q].hist.ver
    /\ hist[req[p].id].ver = obs[p].hist.ver + 1 + WritesOf(req[q].op)

(* what the ledger operation of q makes of the ledger fields of a row *)
C21_Effect(q, row, after) ==
    LET op == req[q].op
        bonus == IF op \in SubscriptionOps THEN SubscriptionBonus ELSE 0
    IN /\ after.CoinsBalance =
            row.CoinsBalance + bonus
              + (IF op \in {"AddCoins", "DeductCoins"} THEN CoinDelta(q) ELSE 0)
       /\ after.TotalCoinsPurchased =
            row.TotalCoinsPurchased + bonus + (IF op = "AddCoins" THEN req[q].coins ELSE 0)
       /\ after.TrialEndsAt = row.TrialEndsAt
       /\ after.IsTrial = IF op = "ActivateSubscription" THEN FALSE ELSE row.IsTrial
       /\ after.HasSubscription =
            IF op = "ActivateSubscription" THEN TRUE ELSE row.HasSubscription
       /\ CASE op = "ActivateSubscription" ->
                 \E t \in 0 .. now : after.SubscriptionEndsAt = t + req[q].duration
            [] op = "RenewSubscription" ->
                 \E t \in 0 .. now :
                    after.SubscriptionEndsAt = NewEndsAt(row, req[q].duration, t)
            [] OTHER -> after.SubscriptionEndsAt = row.SubscriptionEndsAt

(* the state part of C21: the effect of the ledger operation is whole *)
C21_EffectsPreserved ==
    \A p, q \in Procs :
        C21_ConcurrentPair(p, q) => C21_Effect(q, obs[p].row, users[req[p].id])

(* the step part of C21: no step of UpdateUser, its write included, changes
   a ledger field of any account, whatever the row holds by then *)
C21_Step ==
    \A p \in Procs :
        (pc[p] \in UpdateLabels /\ pc'[p] # pc[p])
        => /\ DOMAIN users' = DOMAIN users
           /\ \A id \in DOMAIN users : LedgerFields(users'[id]) = LedgerFields(users[id])

(* C21: UpdateUser never changes coinsBalance, totalCoinsPurchased, isTrial,
   trialEndsAt, hasSubscription or subscriptionEndsAt of any account; when it
   interleaves with AddCoins, DeductCoins, ActivateSubscription or
   RenewSubscription on the same account, the effects of those operations are
   all in the final row. *)
C21_UpdateFrame == []C21_EffectsPreserved /\ [][C21_Step]_vars

(* an update read the account, a credit was then written, and the update
   wrote its own fields: the account returned by the update still shows the
   old balance, the row has the credit and the new fields *)
C21_Witness ==
    \E p, q \in Procs :
        /\ C21_ConcurrentPair(p, q)
        /\ req[q].op = "AddCoins"
        /\ res[p].user.CoinsBalance = obs[p].row.CoinsBalance
        /\ users[req[p].id].CoinsBalance = obs[p].row.CoinsBalance + req[q].coins
        /\ users[req[p].id].Status = StatusSuspended
        /\ obs[p].row.Status = StatusActive


(* the state part of C22: every account has the trial end its creation gave
   it, 72 hours after the time CreateUser read *)
C22_TrialEndSet ==
    \A id \in DOMAIN users :
        /\ users[id].TrialEndsAt # NilTime
        /\ users[id].TrialEndsAt >= TrialHours
        /\ users[id].TrialEndsAt <= users[id].CreatedAt + TrialHours

(* C22: trialEndsAt of an account is set once by CreateUser and has the
   same value in every later state of the account: no step of any operation,
   the write of ActivateSubscription from its earlier snapshot included,
   clears or changes it, under any interleaving. *)
C22_TrialEndFixed ==
    /\ []C22_TrialEndSet
    /\ [][\A id \in DOMAIN users :
            id \in DOMAIN users' => users'[id].TrialEndsAt = users[id].TrialEndsAt]_vars

(* an activation wrote the trial end of its snapshot while another call wrote
   the same row in between: the trial end is the one of the creation *)
C22_Witness ==
    \E p \in Procs :
        /\ Done(p, "ActivateSubscription")
        /\ res[p].err = NoErr
        /\ obs[p].found
        /\ req[p].id \in DOMAIN users
        /\ hist[req[p].id].ver = obs[p].hist.ver + 3
        /\ users[req[p].id].HasSubscription
        /\ users[req[p].id].TrialEndsAt = obs[p].row.TrialEndsAt
        /\ users[req[p].id].TrialEndsAt = users[req[p].id].CreatedAt + TrialHours


(* C23: in every reachable state every account with hasSubscription = true
   has a subscriptionEndsAt that is present, and every account without
   subscription that was never activated has none. *)
C23_EndPresentIffActivated ==
    \A id \in DOMAIN users :
        /\ users[id].HasSubscription => users[id].SubscriptionEndsAt # NilTime
        /\ (~users[id].HasSubscription /\ hist[id].activated = 0)
             => users[id].SubscriptionEndsAt = NilTime

(* of two accounts one was activated and has its end, the other was never
   activated and has none *)
C23_Witness ==
    \E p \in Procs : \E other \in DOMAIN users :
        /\ Done(p, "ActivateSubscription")
        /\ res[p].err = NoErr
        /\ req[p].id \in DOMAIN users
        /\ users[req[p].id].HasSubscription
        /\ users[req[p].id].SubscriptionEndsAt >= req[p].duration
        /\ other # req[p].id
        /\ ~users[other].HasSubscription
        /\ hist[other].activated = 0
        /\ users[other].SubscriptionEndsAt = NilTime


(* the request asks for a status outside the four *)
AsksInvalidStatus(r) == r.Status # NilStatus /\ r.Status \notin ValidStatuses

(* the errors of the checks UpdateUser makes before it looks at the status *)
BeforeStatusErrors ==
    {ErrUserIDRequired, ErrInvalidUUID, ErrUserNotFound, ErrDeadline,
     ErrEmailTooLong, ErrInvalidEmailFormat, ErrEmailAlreadyExists, ErrNameTooLong}

(* the state part of C24 *)
C24_StatusValid ==
    /\ \A id \in DOMAIN users : users[id].Status \in ValidStatuses
    /\ \A p \in Procs :
         (Done(p, "UpdateUser") /\ AsksInvalidStatus(req[p]))
         => /\ res[p].err \in {ErrInvalidStatus} \cup BeforeStatusErrors
            /\ (/\ obs[p].found /\ req[p].id \in DOMAIN users /\ obs[p].timeouts = 0
                /\ req[p].Email = EmptyString
                /\ Len(req[p].Name) <= MaxNameLength)
                 => res[p].err = ErrInvalidStatus

(* the step part of C24 *)
C24_Step ==
    \A p \in Procs :
        \* a created account is active
        /\ (pc[p] = "CreateUser_Create" /\ pc'[p] = "idle" /\ res'[p].err = NoErr)
             => users'[loc[p].user.ID].Status = StatusActive
        \* a call that asks for any other status writes nothing and never
        \* reaches its write
        /\ (req'[p].op = "UpdateUser" /\ AsksInvalidStatus(req'[p]))
             => /\ pc'[p] # "UpdateUser_Update"
                /\ pc'[p] # pc[p] => users' = users

(* C24: in every reachable state the status of every account is one of
   active, inactive, suspended, deleted: CreateUser sets active, and
   UpdateUser refuses any other requested status with ErrInvalidStatus,
   without writing. *)
C24_StatusInSet == []C24_StatusValid /\ [][C24_Step]_vars

(* an update asked for a new name and an unknown status: it was refused with
   ErrInvalidStatus and the account is as it was *)
C24_Witness ==
    \E p \in Procs :
        /\ Done(p, "UpdateUser")
        /\ req[p].Status = StatusUnknown
        /\ req[p].Name = NameM
        /\ res[p].err = ErrInvalidStatus
        /\ obs[p].found
        /\ req[p].id \in DOMAIN users
        /\ users[req[p].id] = obs[p].row
        /\ users[req[p].id].Status = StatusActive


(* the account a creation at time t starts with *)
C25_Fresh(row, t) ==
    /\ row.CoinsBalance = 200
    /\ row.TotalCoinsPurchased = 0
    /\ row.IsTrial = TRUE
    /\ row.TrialEndsAt = t + 72
    /\ row.HasSubscription = FALSE
    /\ row.SubscriptionEndsAt = NilTime
    /\ row.Status = "active"

(* C25: every account created by a successful CreateUser starts with
   coinsBalance = 200, totalCoinsPurchased = 0, isTrial = true, trialEndsAt =
   the time the call read + 72 hours, hasSubscription = false,
   subscriptionEndsAt absent and status = active, under an id that no other
   account has or had. *)
C25_InitialAccount ==
    [][\A p \in Procs :
         \* the account is made up when the probe has found nobody
         /\ (pc[p] = "CreateUser_GetByEmail" /\ pc'[p] = "CreateUser_Create")
              => /\ C25_Fresh(loc'[p].user, now)
                 /\ loc'[p].user.Email = req[p].Email
                 /\ loc'[p].user.Name = req[p].Name
                 /\ \A q \in Procs :
                      (q # p /\ pc[q] = "CreateUser_Create")
                      => loc[q].user.ID # loc'[p].user.ID
         \* and inserted as it was made up, under an id never used
         /\ (pc[p] = "CreateUser_Create" /\ pc'[p] = "idle" /\ res'[p].err = NoErr)
              => LET id == loc[p].user.ID IN
                 /\ id \notin DOMAIN users
                 /\ hist[id].ver = 0
                 /\ DOMAIN users' = DOMAIN users \cup {id}
                 /\ \A other \in DOMAIN users : users'[other] = users[other]
                 /\ users'[id].ID = id
                 /\ users'[id].Email = req[p].Email
                 /\ users'[id].Name = req[p].Name
                 /\ C25_Fresh(users'[id], loc[p].user.TrialEndsAt - 72)
                 /\ loc[p].user.TrialEndsAt - 72 <= now
                 /\ users'[id].CreatedAt = now
                 /\ res'[p].user.ID = id]_vars

(* two creations ran side by side, the second one an hour into the run: two
   accounts under two ids, each with its initial values *)
C25_Witness ==
    \E p, q \in Procs :
        /\ p # q
        /\ Done(p, "CreateUser") /\ Done(q, "CreateUser")
        /\ res[p].err = NoErr /\ res[q].err = NoErr
        /\ res[p].user.ID # res[q].user.ID
        /\ DOMAIN users = {res[p].user.ID, res[q].user.ID}
        /\ C25_Fresh(users[res[p].user.ID], 0)
        /\ C25_Fresh(users[res[q].user.ID], 1)


(* C26: ListUsers clamps its bounds instead of refusing them: whatever limit
   and offset it is called with, the call goes on to the store, with
   0 < limit <= MaxListLimit and 0 <= offset <= MaxListOffset, and no call
   fails because of its bounds. *)
C26_BoundsClamped ==
    \A p \in Procs :
        req[p].op = "ListUsers" =>
            /\ res[p].err \notin {ErrListLimitTooLarge, ErrListOffsetTooLarge}
            /\ (pc[p] = "idle" /\ obs[p].timeouts = 0) => res[p].err = NoErr
            /\ pc[p] = "ListUsers_List" =>
                 /\ 0 < ListLimit(req[p].limit) /\ ListLimit(req[p].limit) <= MaxListLimit
                 /\ 0 <= ListOffset(req[p].offset)
                 /\ ListOffset(req[p].offset) <= MaxListOffset


(* C27: for every limit <= 0 ListUsers uses the limit 10 and for every
   offset < 0 the offset 0, and the listing goes to the store with those
   values: ListUsers(0, -5) lists as ListUsers(10, 0). *)
C27_DefaultBounds ==
    [][\A p \in Procs :
         LET limit == req'[p].limit
             offset == req'[p].offset
         IN \* such a call is not refused: it goes to the store
            /\ (/\ pc[p] = "idle" /\ ops' # ops /\ req'[p].op = "ListUsers"
                /\ limit <= 0 /\ offset < 0)
                 => pc'[p] = "ListUsers_List"
            \* and the store lists with the default in place of what was sent
            /\ (pc[p] = "ListUsers_List" /\ Completes(p))
                 => /\ pc'[p] = "idle"
                    /\ res'[p].err = NoErr
                    /\ res'[p].list \in List(users, IF limit <= 0 THEN 10 ELSE limit,
                                             IF offset < 0 THEN 0 ELSE offset)
                    /\ users' = users]_vars

(* a listing asked for with limit 0 and a negative offset returned both
   accounts *)
C27_Witness ==
    \E p \in Procs :
        /\ Done(p, "ListUsers")
        /\ req[p].limit = 0
        /\ req[p].offset < 0
        /\ res[p].err = NoErr
        /\ Cardinality(DOMAIN users) = 2
        /\ Len(res[p].list) = 2
        /\ {res[p].list[1].ID, res[p].list[2].ID} = DOMAIN users


CoinOps == {"AddCoins", "DeductCoins"}

(* the first store call of the ledger operations *)
FirstStoreCall(op) ==
    CASE op = "AddCoins" -> "AddCoins_AddCoinsAtomic"
      [] op = "DeductCoins" -> "DeductCoins_DeductCoinsAtomic"
      [] op = "ActivateSubscription" -> "ActivateSubscription_GetByID"
      [] op = "RenewSubscription" -> "RenewSubscription_GetByID"

(* the call is refused with err before any store call *)
RefusedWith(p, err) ==
    /\ pc'[p] = "idle"
    /\ res'[p].err = err
    /\ users' = users
    /\ faults' = faults

(* C28: on a well-formed id AddCoins and DeductCoins accept exactly the
   amounts in [1, 1,000,000,000]: amount <= 0 fails with
   ErrInvalidCoinsAmount, amount > 1,000,000,000 with ErrCoinsAmountTooLarge;
   ActivateSubscription and RenewSubscription accept exactly the durations in
   (0, 87600 h]: duration <= 0 fails with ErrInvalidSubscriptionDuration,
   duration > 87600 h with ErrSubscriptionDurationTooLong; every value in
   range reaches the store. *)
C28_RangeChecks ==
    [][\A p \in Procs :
         LET r == req'[p] IN
         (pc[p] = "idle" /\ ops' # ops /\ r.op \in LedgerOps /\ r.id \in Ids) =>
            /\ (r.op \in CoinOps /\ r.coins <= 0) => RefusedWith(p, ErrInvalidCoinsAmount)
            /\ (r.op \in CoinOps /\ r.coins > 1000000000)
                 => RefusedWith(p, ErrCoinsAmountTooLarge)
            /\ (r.op \in CoinOps /\ 1 <= r.coins /\ r.coins <= 1000000000)
                 => pc'[p] = FirstStoreCall(r.op)
            /\ (r.op \in SubscriptionOps /\ r.duration <= 0)
                 => RefusedWith(p, ErrInvalidSubscriptionDuration)
            /\ (r.op \in SubscriptionOps /\ r.duration > 87600)
                 => RefusedWith(p, ErrSubscriptionDurationTooLong)
            /\ (r.op \in SubscriptionOps /\ 0 < r.duration /\ r.duration <= 87600)
                 => pc'[p] = FirstStoreCall(r.op)]_vars

(* the largest amount was accepted and credited *)
C28_Witness ==
    \E p \in Procs :
        /\ Done(p, "AddCoins")
        /\ req[p].coins = MaxCoinsAmount
        /\ res[p].err = NoErr
        /\ req[p].id \in DOMAIN users
        /\ users[req[p].id].CoinsBalance = obs[p].row.CoinsBalance + MaxCoinsAmount


(* the step notifies the sink of the event of p's call *)
Notifies(p) == res[p].audit = NotSent /\ res'[p].audit # NotSent

(* the state part of C29: whatever the sink answered, the call it was told
   of is a success *)
C29_SuccessStays ==
    \A p \in Procs :
        res[p].audit # NotSent
        => /\ res[p].err = NoErr
           /\ res[p].audit \in {NoErr, ErrDeliveryFailed, ErrDeliveryTimeout}
           /\ pc[p] = "idle"

(* C29: the outcome of an operation, its result and the account state, is
   the same whether the audit sink accepts the event, rejects it or times
   out: a failure of the sink never turns a successful operation into a
   failure and never undoes or repeats its store write. *)
C29_AuditSwallowed ==
    /\ []C29_SuccessStays
    /\ [][\A p \in Procs :
            Notifies(p)
            => /\ res'[p] = [res[p] EXCEPT !.audit = res'[p].audit]
               /\ users' = users
               /\ hist' = hist
               /\ pc' = pc
               /\ ops' = ops]_vars

(* a credit succeeded, the sink timed out on its event, and the credit is a
   success that was written once *)
C29_Witness ==
    \E p \in Procs :
        /\ Done(p, "AddCoins")
        /\ res[p].audit = ErrDeliveryTimeout
        /\ res[p].err = NoErr
        /\ req[p].id \in DOMAIN users
        /\ hist[req[p].id].ver = obs[p].hist.ver + 1
        /\ users[req[p].id].CoinsBalance = obs[p].row.CoinsBalance + req[p].coins


(* what has been taken out of an account: 200 + totalCoinsPurchased -
   coinsBalance *)
Spent(row) == 200 + row.TotalCoinsPurchased - row.CoinsBalance

RECURSIVE SumUpTo(_, _)
SumUpTo(f, n) == IF n = 0 THEN 0 ELSE f[n] + SumUpTo(f, n - 1)

(* the amounts of the DeductCoins calls on id that return success in the step *)
DeductedInStep(id) ==
    SumUpTo([p \in Procs |->
               IF /\ pc[p] = "DeductCoins_DeductCoinsAtomic" /\ pc'[p] = "idle"
                  /\ res'[p].err = NoErr /\ req[p].id = id
               THEN req[p].coins ELSE 0], NumProcs)

(* the amounts of the AddCoins calls on id that return success in the step,
   and 5000 for every bonus credited to id in the step *)
PurchasedInStep(id) ==
    SumUpTo([p \in Procs |->
               IF /\ pc[p] = "AddCoins_AddCoinsAtomic" /\ pc'[p] = "idle"
                  /\ res'[p].err = NoErr /\ req[p].id = id
               THEN req[p].coins
               ELSE IF pc[p] \in BonusLabels /\ pc'[p] \in GuardLabels /\ req[p].id = id
               THEN 5000 ELSE 0], NumProcs)

(* the state part of C30 *)
C30_BalanceBounded ==
    \A id \in DOMAIN users :
        /\ Spent(users[id]) >= 0
        /\ users[id].CoinsBalance <= 200 + users[id].TotalCoinsPurchased

(* the step part of C30: an account starts with nothing purchased and
   nothing spent; from then on what is spent grows by exactly the amounts of
   the successful DeductCoins calls, and what is purchased by exactly the
   amounts of the successful AddCoins calls and the bonuses *)
C30_Step ==
    \A id \in DOMAIN users' :
        IF id \notin DOMAIN users
        THEN Spent(users'[id]) = 0 /\ users'[id].TotalCoinsPurchased = 0
        ELSE /\ Spent(users'[id]) = Spent(users[id]) + DeductedInStep(id)
             /\ users'[id].TotalCoinsPurchased =
                  users[id].TotalCoinsPurchased + PurchasedInStep(id)

(* C30: coin conservation: in every reachable state and for every
   interleaving, each existing account has coinsBalance = 200 +
   totalCoinsPurchased - the sum of the amounts of the successful DeductCoins
   calls on it, totalCoinsPurchased being the sum of the successful AddCoins
   amounts plus 5000 for every bonus credit; hence coinsBalance <= 200 +
   totalCoinsPurchased. *)
C30_CoinConservation == []C30_BalanceBounded /\ [][C30_Step]_vars

(* a bonus and a debit of one account were in flight together, and both are
   in the books: 5000 purchased, the debit spent *)
C30_Witness ==
    \E p, q \in Procs :
        /\ p # q
        /\ Done(p, "DeductCoins") /\ res[p].err = NoErr
        /\ Done(q, "ActivateSubscription") /\ res[q].err = NoErr
        /\ req[p].id = req[q].id
        /\ req[p].id \in DOMAIN users
        /\ obs[p].hist.ver = obs[q].hist.ver
        /\ users[req[p].id].TotalCoinsPurchased = SubscriptionBonus
        /\ Spent(users[req[p].id]) = req[p].coins
        /\ users[req[p].id].CoinsBalance =
             InitialCoinsBalance + SubscriptionBonus - req[p].coins


(* two successful renewals of one account that began on the same version of
   the row, neither cut off, the only writers of the row since *)
C31_ConcurrentPair(p, q) ==
    /\ p # q
    /\ Done(p, "RenewSubscription") /\ Done(q, "RenewSubscription")
    /\ res[p].err = NoErr /\ res[q].err = NoErr
    /\ req[p].id = req[q].id
    /\ req[p].id \in DOMAIN users
    /\ obs[p].found /\ obs[q].found
    /\ obs[p].hist.ver = obs[q].hist.ver
    /\ obs[p].timeouts = 0 /\ obs[q].timeouts = 0
    /\ hist[req[p].id].ver = obs[p].hist.ver + 4

(* C31: renewals are additive under concurrency: when two RenewSubscription
   calls with durations d1 and d2 both succeed on an account whose
   subscription end E is in the future throughout, then after both have
   returned subscriptionEndsAt = E + d1 + d2, for every interleaving of
   their reads and writes. *)
C31_RenewalsAdditive ==
    \A p, q \in Procs :
        (C31_ConcurrentPair(p, q) /\ obs[p].row.SubscriptionEndsAt > now)
        => users[req[p].id].SubscriptionEndsAt =
             obs[p].row.SubscriptionEndsAt + req[p].duration + req[q].duration


(* C32: when the conditional write of DeductCoins matches no row, the error
   returned classifies the account: ErrUserNotFound only if no row with the
   id exists, ErrInsufficientCoinsBalance only if the row exists with a
   balance below the amount, also when the existence read that follows fails
   or times out and when a DeleteUser or AddCoins runs in between; likewise
   ErrSubscriptionAlreadyActive and ErrNoActiveSubscription against
   ErrUserNotFound for the subscription writes. *)
C32_ZeroRowsClassified ==
    [][\A p \in Procs :
         (pc[p] \in {"DeductCoinsAtomic_GetByID"} \cup FollowUpLabels /\ pc'[p] = "idle")
         => LET id == req[p].id
                err == res'[p].err
            IN /\ err \in {ErrUserNotFound, ErrInsufficientCoinsBalance,
                           ErrSubscriptionAlreadyActive, ErrNoActiveSubscription}
               /\ err = ErrUserNotFound => id \notin DOMAIN users
               /\ err = ErrInsufficientCoinsBalance
                    => id \in DOMAIN users /\ users[id].CoinsBalance < req[p].coins
               /\ err = ErrSubscriptionAlreadyActive
                    => id \in DOMAIN users /\ users[id].HasSubscription
               /\ err = ErrNoActiveSubscription
                    => id \in DOMAIN users /\ ~users[id].HasSubscription]_vars


(* C33: a request to activate or renew with a positive duration_hours above
   MaxSubscriptionDurationHours is refused with ErrSubscriptionDurationTooLong
   and writes nothing to the store, also when duration_hours * time.Hour
   passes the signed 64-bit range of time.Duration. *)
C33_Oversized(p) ==
    /\ req[p].op \in SubscriptionOps
    /\ uuidParse(req[p].id)
    /\ req[p].DurationHours > MaxSubscriptionDurationHours

C33_Refused ==
    \A p \in Procs :
        C33_Oversized(p) => pc[p] = "idle" /\ res[p].err = ErrSubscriptionDurationTooLong

C33_Step == (\E p \in Procs : C33_Oversized(p) /\ pc[p] # "idle") => users' = users

C33_OversizedDurationRejected == []C33_Refused /\ [][C33_Step]_vars


(* C34: handleError gives every error kind of the domain model its own
   outcome, never the generic one: ErrUserNotFound 404, ErrEmailAlreadyExists
   409, every validation and precondition error (an oversized subscription
   duration included) 400 with a message of its own; only errors that are
   not a domain error kind give 500 "internal server error". *)
UserErrors ==
    {ErrUserNotFound, ErrInsufficientCoinsBalance, ErrSubscriptionAlreadyActive,
     ErrNoActiveSubscription, ErrInvalidCoinsAmount, ErrInvalidEmailFormat,
     ErrEmailAlreadyExists, ErrInvalidStatus, ErrInvalidSubscriptionDuration,
     ErrEmailRequired, ErrNameRequired, ErrUserIDRequired, ErrEmailTooLong,
     ErrNameTooLong, ErrInvalidUUID, ErrCoinsAmountTooLarge, ErrListLimitTooLarge,
     ErrListOffsetTooLarge, ErrSubscriptionDurationTooLong}

C34_Code(err) ==
    IF err = ErrUserNotFound THEN 404
    ELSE IF err = ErrEmailAlreadyExists THEN 409
    ELSE 400

C34_DomainErrorsMapped ==
    \A p \in Procs :
        (pc[p] = "idle" /\ res[p].err # NoErr /\ res[p].reply # NoReply)
        => IF res[p].err \in UserErrors
           THEN /\ res[p].reply.code = C34_Code(res[p].err)
                /\ res[p].reply.msg # "internal server error"
           ELSE res[p].reply = [code |-> 500, msg |-> "internal server error"]


(* C35: in AuditPublisher.Publish no delivery report is sent on a delivery
   channel that has been closed, however the producer's delivery reports
   interleave with Publish returning, also when Publish returned on the
   10-second timeout or on the cancelled context before the report came. *)
C35_NoSendOnClosedChan == ~kafka.panicked

C35_Witness ==
    /\ \E i \in 1 .. Len(kafka.events) : kafka.events[i].late
    /\ \E p \in Procs : Done(p, "Publish") /\ res[p].err = ErrDeliveryTimeout
    /\ \E p \in Procs : Done(p, "Publish") /\ res[p].err = ErrCanceled

====
